---- MODULE Spec2Model ----
(***************************************************************************)
(* A model of the ArcheBlow analysis engine: the heuristic RiskModel, the  *)
(* orchestrating ArcheBlowAnalyzer (src/archeblow_service.py) and the      *)
(* MonitoringService event log (src/monitoring.py).                        *)
(*                                                                         *)
(* Scores are Python floats in the source.  The model computes them as     *)
(* exact rationals <<numerator, denominator>> in lowest terms, so that     *)
(* sums, products, minima and threshold comparisons are those of the       *)
(* source up to floating-point rounding.                                   *)
(***************************************************************************)
EXTENDS Integers, Sequences, FiniteSets, TLC

(***************************************************************************)
(* Bounds of the model.                                                    *)
(***************************************************************************)
\* longest hop list drawn for RiskModel.evaluate
MaxHops == 3
\* longest hop list an explorer returns to analyze
MaxFetchHops == 1
\* most explorer clients handed to the constructor
MaxExplorers == 2
\* most mixer clients handed to the constructor
MaxMixers == 2
\* size of the extra hop list with one sender and this many destinations
BigFanOut == 21
\* most MonitoringService operations in one run
MaxOps == 3
\* events already logged when a run of the MonitoringService starts, if any
PrefilledEvents == 199

(***************************************************************************)
(* Exact rational arithmetic.                                              *)
(***************************************************************************)
RECURSIVE GCD(_, _)
GCD(a, b) == IF b = 0 THEN a ELSE GCD(b, a % b)

Abs(x) == IF x < 0 THEN -x ELSE x

\* n/d in lowest terms with a positive denominator (d # 0)
Rat(n, d) ==
    LET g == GCD(Abs(n), Abs(d))
        s == IF d < 0 THEN -1 ELSE 1
    IN  <<(s * n) \div g, (s * d) \div g>>

RAdd(x, y) ==
    LET l == (x[2] \div GCD(x[2], y[2])) * y[2]
    IN  Rat(x[1] * (l \div x[2]) + y[1] * (l \div y[2]), l)

RMul(x, y) ==
    LET g1 == GCD(Abs(x[1]), y[2])
        g2 == GCD(Abs(y[1]), x[2])
    IN  Rat((x[1] \div g1) * (y[1] \div g2), (x[2] \div g2) * (y[2] \div g1))

\* x / y for y > 0
RDiv(x, y) == RMul(x, <<y[2], y[1]>>)

RLe(x, y) == x[1] * y[2] <= y[1] * x[2]

RLt(x, y) == x[1] * y[2] < y[1] * x[2]

RMin(x, y) == IF RLe(x, y) THEN x ELSE y

RMax(x, y) == IF RLe(x, y) THEN y ELSE x

Zero == <<0, 1>>

One == <<1, 1>>

RECURSIVE SeqMaxR(_)
SeqMaxR(s) ==
    IF Len(s) = 1 THEN s[1] ELSE RMax(s[1], SeqMaxR(Tail(s)))

RECURSIVE SumInts(_)
SumInts(s) == IF s = <<>> THEN 0 ELSE s[1] + SumInts(Tail(s))

SetMax(S) == CHOOSE x \in S : \A y \in S : y <= x

SetMin(S) == CHOOSE x \in S : \A y \in S : x <= y

\* every sequence over S of length at most n
SeqsUpTo(S, n) == UNION {[1..k -> S] : k \in 0..n}

\* the sequences of SeqsUpTo(S, n) that name no element twice
InjSeqsUpTo(S, n) ==
    {s \in SeqsUpTo(S, n) : \A i, j \in 1..Len(s) : s[i] = s[j] => i = j}

(***************************************************************************)
(* Data model (archeblow_service.py): networks, addresses, hops, matches.  *)
(***************************************************************************)
Network == {"bitcoin", "ethereum", "litecoin", "polygon", "tron"}

\* Addresses as the caller and the providers spell them; "0xAB" and "0xab"
\* differ only in letter case.
Addresses == {"0xAB", "0xab", "bc1q", "bc1z", "t1mix"}

\* str.lower() on the addresses of the model
Lower(a) == IF a = "0xAB" THEN "0xab" ELSE a

TransactionHop(tx, from, to, ts) ==
    [tx_hash |-> tx, from_address |-> from, to_address |-> to,
     amount |-> 1, timestamp |-> ts]

MixerMatch(name, conf, ev) ==
    [mixer_name |-> name, confidence |-> conf, evidence |-> ev]

\* the hops upstream data is drawn from
Hops ==
    { TransactionHop("tx1", "bc1q", "bc1z", 0),
      TransactionHop("tx2", "bc1q", "0xAB", 900),
      TransactionHop("tx3", "0xab", "t1mix", 2400),
      TransactionHop("tx4", "bc1q", "t1mix", 86400) }

\* one sender paying n distinct destinations, one hop a minute
FanOutHops(n) ==
    [i \in 1..n |->
        TransactionHop("fan" \o ToString(i), "bc1q", "dest" \o ToString(i), 60 * i)]

(***************************************************************************)
(* RiskModel (archeblow_service.py:102-198).                               *)
(***************************************************************************)
Heuristic == {"MIXER_DETECTED", "FAN_OUT", "FRESH_FUNDS", "RAPID_CIRCULATION"}

\* the defaults with the mixer weight mistyped as 0.06
default_weights_typo ==
    [MIXER_DETECTED |-> <<3, 50>>, FAN_OUT |-> <<3, 20>>,
     FRESH_FUNDS |-> <<1, 10>>, RAPID_CIRCULATION |-> <<3, 20>>]

\* default_weights of RiskModel.__init__
default_weights ==
    [MIXER_DETECTED |-> <<3, 5>>, FAN_OUT |-> <<3, 20>>,
     FRESH_FUNDS |-> <<1, 10>>, RAPID_CIRCULATION |-> <<3, 20>>]

\* RiskModel.__init__: the defaults, updated by the weights supplied
RiskModelInit(weights) ==
    [h \in Heuristic |->
        IF h \in DOMAIN weights THEN weights[h] ELSE default_weights[h]]

FanOutDivisor == 20

FreshWindow == 86400

CirculationBaseline == 600

NoteMixer == "mixer_detected"
NoteFanOut == "fan_out"
NoteFresh == "fresh_funds"
NoteCirculation == "rapid_circulation"

\* _estimate_fan_out: the largest number of distinct destinations of one
\* sender, over 20, at most 1
EstimateFanOut(hops) ==
    IF hops = <<>> THEN Zero
    ELSE
        LET senders == {hops[i].from_address : i \in 1..Len(hops)}
            outgoing_map == [s \in senders |->
                {hops[i].to_address : i \in {j \in 1..Len(hops) : hops[j].from_address = s}}]
            fan_out_values == {Cardinality(outgoing_map[s]) : s \in senders}
        IN  IF fan_out_values = {} THEN Zero
            ELSE RMin(Rat(SetMax(fan_out_values), FanOutDivisor), One)

\* _is_fresh_funds
IsFreshFunds(hops) ==
    IF hops = <<>> THEN FALSE
    ELSE
        LET stamps == {hops[i].timestamp : i \in 1..Len(hops)}
        IN  (SetMax(stamps) - SetMin(stamps)) < FreshWindow

\* sorted(hops, key=timestamp): a stable insertion sort
RECURSIVE InsertByTimestamp(_, _)
InsertByTimestamp(sorted, hop) ==
    IF sorted = <<>> THEN <<hop>>
    ELSE IF hop.timestamp < sorted[1].timestamp THEN <<hop>> \o sorted
    ELSE <<sorted[1]>> \o InsertByTimestamp(Tail(sorted), hop)

RECURSIVE SortAscending(_)
SortAscending(hops) ==
    IF hops = <<>> THEN <<>>
    ELSE InsertByTimestamp(SortAscending(SubSeq(hops, 1, Len(hops) - 1)),
                           hops[Len(hops)])

\* _estimate_rapid_circulation with the deltas taken in arrival order
EstimateRapidCirculationUnsorted(hops) ==
    IF Len(hops) < 2 THEN Zero
    ELSE
        LET deltas == [i \in 1..(Len(hops) - 1) |->
                hops[i + 1].timestamp - hops[i].timestamp]
            average_delta == Rat(SumInts(deltas), Len(deltas))
        IN  IF RLe(average_delta, Zero) THEN One
            ELSE RMin(One, RDiv(One, RDiv(average_delta, <<CirculationBaseline, 1>>)))

\* _estimate_rapid_circulation
EstimateRapidCirculation(hops) ==
    IF Len(hops) < 2 THEN Zero
    ELSE
        LET sorted_hops == SortAscending(hops)
            deltas == [i \in 1..(Len(hops) - 1) |->
                sorted_hops[i + 1].timestamp - sorted_hops[i].timestamp]
            average_delta == Rat(SumInts(deltas), Len(deltas))
        IN  IF RLe(average_delta, Zero) THEN One
            ELSE RMin(One, RDiv(One, RDiv(average_delta, <<CirculationBaseline, 1>>)))

\* the final `return min(score, 1.0)` of evaluate
ClampScoreNone(score) == score
ClampScore(score) == RMin(score, One)

\* RiskModel.evaluate: the score and the notes it appends, in order
Evaluate(weights, mixers, hops) ==
    LET s1 == IF mixers # <<>>
              THEN RAdd(weights.MIXER_DETECTED,
                        RMul(<<1, 10>>,
                             SeqMaxR([i \in 1..Len(mixers) |-> mixers[i].confidence])))
              ELSE Zero
        n1 == IF mixers # <<>> THEN <<NoteMixer>> ELSE <<>>
        fan_out_ratio == EstimateFanOut(hops)
        s2 == RAdd(s1, RMul(fan_out_ratio, weights.FAN_OUT))
        n2 == IF RLt(<<1, 2>>, fan_out_ratio) THEN n1 \o <<NoteFanOut>> ELSE n1
        fresh == hops # <<>> /\ IsFreshFunds(hops)
        s3 == IF fresh THEN RAdd(s2, weights.FRESH_FUNDS) ELSE s2
        n3 == IF fresh THEN n2 \o <<NoteFresh>> ELSE n2
        circulation == EstimateRapidCirculation(hops)
        s4 == RAdd(s3, RMul(circulation, weights.RAPID_CIRCULATION))
        n4 == IF RLt(<<1, 2>>, circulation) THEN n3 \o <<NoteCirculation>> ELSE n3
    IN  [score |-> ClampScore(s4), notes |-> n4]

\* _risk_level_from_score with the thresholds compared by > instead of >=
RiskLevelFromScoreStrict(score) ==
    IF RLt(<<3, 4>>, score) THEN "critical"
    ELSE IF RLt(<<1, 2>>, score) THEN "high"
    ELSE IF RLt(<<1, 4>>, score) THEN "moderate"
    ELSE "low"

\* ArcheBlowAnalyzer._risk_level_from_score
RiskLevelFromScore(score) ==
    IF RLe(<<3, 4>>, score) THEN "critical"
    ELSE IF RLe(<<1, 2>>, score) THEN "high"
    ELSE IF RLe(<<1, 4>>, score) THEN "moderate"
    ELSE "low"

(***************************************************************************)
(* Inputs of RiskModel.evaluate.                                           *)
(***************************************************************************)
\* weights as supplied to RiskModel(weights=...); the empty mapping is None
NoWeights == [h \in {} |-> Zero]

SuppliedWeights ==
    { NoWeights,
      [MIXER_DETECTED |-> <<2, 1>>],
      [FRESH_FUNDS |-> <<-1, 10>>],
      [MIXER_DETECTED |-> <<1, 4>>, FAN_OUT |-> Zero,
       FRESH_FUNDS |-> <<1, 4>>, RAPID_CIRCULATION |-> <<1, 4>>] }

\* matches as mixer sources report them, confidence within [0,1]
Matches ==
    { MixerMatch("Tornado", <<7, 10>>, [match |-> "0xAB"]),
      MixerMatch("Tornado", <<63, 100>>, [tx_hash |-> "tx2", match |-> "0xAB"]),
      MixerMatch("Sinbad", One, [match |-> "t1mix"]) }

MatchLists == SeqsUpTo(Matches, 2)

HopLists == SeqsUpTo(Hops, MaxHops) \cup {FanOutHops(11), FanOutHops(BigFanOut)}

(***************************************************************************)
(* Clients handed to ArcheBlowAnalyzer.                                    *)
(***************************************************************************)
\* explorer clients: the two free bitcoin providers of explorers.py and the
\* in-memory explorer, which sets no service_name
ExplorerClients ==
    { [cls |-> "BlockchainComExplorerClient", network |-> "bitcoin",
       has_service_name |-> TRUE, service_name |-> "Blockchain.com Explorer"],
      [cls |-> "BlockCypherExplorerClient", network |-> "bitcoin",
       has_service_name |-> TRUE, service_name |-> "BlockCypher API"],
      [cls |-> "InMemoryExplorerClient", network |-> "ethereum",
       has_service_name |-> FALSE, service_name |-> ""] }

\* the dict comprehension {addr.lower(): name} of HeuristicMixerClient.__init__
LowerKeys(watchlist) ==
    [k \in {Lower(a) : a \in DOMAIN watchlist} |->
        watchlist[CHOOSE a \in DOMAIN watchlist : Lower(a) = k]]

\* HeuristicMixerClient.__init__ with the default service_name
HeuristicMixerClient(watchlist, base_confidence) ==
    [cls |-> "HeuristicMixerClient", has_service_name |-> TRUE,
     service_name |-> "Heuristic Mixer Watchlist", raises |-> FALSE,
     watchlist |-> LowerKeys(watchlist), base_confidence |-> base_confidence]

\* a mixer source whose detect_mixers raises an Exception (a transport
\* failure, say); it carries the default display name
FailingMixerClient ==
    [cls |-> "FailingMixerClient", has_service_name |-> TRUE,
     service_name |-> "Heuristic Mixer Watchlist", raises |-> TRUE,
     watchlist |-> LowerKeys([a \in {} |-> ""]), base_confidence |-> Zero]

MixerClients ==
    { HeuristicMixerClient([a \in {"0xAB"} |-> "Tornado"], <<7, 10>>),
      [HeuristicMixerClient([a \in {"t1mix"} |-> "Sinbad"], One)
          EXCEPT !.service_name = "Sinbad Watchlist"],
      FailingMixerClient }

\* the risk models handed to the constructor: none, or one with weights
\* that put scores on the level thresholds
RiskModels ==
    { <<>>,
      <<RiskModelInit([MIXER_DETECTED |-> <<1, 4>>, FAN_OUT |-> Zero,
                       FRESH_FUNDS |-> <<1, 4>>, RAPID_CIRCULATION |-> <<1, 4>>])>> }

\* the hop lists an explorer returns
FetchHopLists == SeqsUpTo(Hops, MaxFetchHops)

\* the addresses analyze is called with
AnalyzedAddresses == {"0xAB", "bc1q"}

\* detect_mixers, were it to look at the sender of a hop as well
DetectMixersSenders(client, address, hops) ==
    LET normalized_address == Lower(address)
        own == IF normalized_address \in DOMAIN client.watchlist
               THEN <<MixerMatch(client.watchlist[normalized_address],
                                 client.base_confidence, [match |-> address])>>
               ELSE <<>>
        hit(hop) == \/ Lower(hop.to_address) \in DOMAIN client.watchlist
                    \/ Lower(hop.from_address) \in DOMAIN client.watchlist
        name(hop) == IF Lower(hop.to_address) \in DOMAIN client.watchlist
                     THEN client.watchlist[Lower(hop.to_address)]
                     ELSE client.watchlist[Lower(hop.from_address)]
        F[i \in 0..Len(hops)] ==
            IF i = 0 THEN own
            ELSE IF hit(hops[i])
                 THEN Append(F[i - 1],
                        MixerMatch(name(hops[i]),
                                   RMul(client.base_confidence, <<9, 10>>),
                                   [tx_hash |-> hops[i].tx_hash,
                                    match |-> hops[i].to_address]))
                 ELSE F[i - 1]
    IN  F[Len(hops)]

\* HeuristicMixerClient.detect_mixers
DetectMixers(client, address, hops) ==
    LET normalized_address == Lower(address)
        own == IF normalized_address \in DOMAIN client.watchlist
               THEN <<MixerMatch(client.watchlist[normalized_address],
                                 client.base_confidence, [match |-> address])>>
               ELSE <<>>
        hit(hop) == Lower(hop.to_address) \in DOMAIN client.watchlist
        F[i \in 0..Len(hops)] ==
            IF i = 0 THEN own
            ELSE IF hit(hops[i])
                 THEN Append(F[i - 1],
                        MixerMatch(client.watchlist[Lower(hops[i].to_address)],
                                   RMul(client.base_confidence, <<9, 10>>),
                                   [tx_hash |-> hops[i].tx_hash,
                                    match |-> hops[i].to_address]))
                 ELSE F[i - 1]
    IN  F[Len(hops)]

(***************************************************************************)
(* ArcheBlowAnalyzer (archeblow_service.py:201-273).                       *)
(***************************************************************************)
\* the guard of __init__: no explorer client, no analyzer
ConstructorRaisesNever(explorer_clients) == FALSE
ConstructorRaises(explorer_clients) == explorer_clients = <<>>

\* _select_explorer with the loop keeping the last client that matches
SelectExplorerLast(clients, network) ==
    LET matching == {i \in 1..Len(clients) : clients[i].network = network}
    IN  IF matching = {} THEN 0 ELSE SetMax(matching)

\* _select_explorer: the index of the client returned, 0 for LookupError
SelectExplorer(clients, network) ==
    LET F[i \in 1..(Len(clients) + 1)] ==
            IF i > Len(clients) THEN 0
            ELSE IF clients[i].network = network THEN i
            ELSE F[i + 1]
    IN  F[1]

\* getattr(client, "service_name", client.__class__.__name__)
DisplayName(client) ==
    IF client.has_service_name THEN client.service_name ELSE client.cls

\* list(dict.fromkeys(sources)) left out
UniqueSourcesRaw(sources) == sources
\* list(dict.fromkeys(sources)): the first occurrence of each name, in order
UniqueSources(sources) ==
    LET F[i \in 0..Len(sources)] ==
            IF i = 0 THEN <<>>
            ELSE IF \E j \in 1..Len(F[i - 1]) : F[i - 1][j] = sources[i]
                 THEN F[i - 1]
                 ELSE Append(F[i - 1], sources[i])
    IN  F[Len(sources)]

\* the sources list of analyze (lines 226-233)
BuildSources(explorer, mixer_clients) ==
    UniqueSources(<<DisplayName(explorer)>>
                  \o [i \in 1..Len(mixer_clients) |-> DisplayName(mixer_clients[i])])

\* the outcome of one detect_mixers task as gather(return_exceptions=True)
\* reports it: the matches returned, or the Exception raised
TaskOutcome(client, address, hops) ==
    IF client.raises
    THEN [state |-> "raised", value |-> <<>>]
    ELSE [state |-> "returned", value |-> DetectMixers(client, address, hops)]

\* a task that is done, and its place in the order the tasks completed in
Finished(outcome, place) ==
    [state |-> outcome.state, value |-> outcome.value, done |-> place]

\* a join that takes the results in the order the tasks completed in, as
\* asyncio.as_completed would hand them over
JoinResultsAsCompleted(results) ==
    LET nth(k) == CHOOSE i \in 1..Len(results) : results[i].done = k
        F[k \in 0..Len(results)] ==
            IF k = 0 THEN <<>>
            ELSE IF results[nth(k)].state = "raised" THEN F[k - 1]
            ELSE F[k - 1] \o results[nth(k)].value
    IN  [raised |-> FALSE, matches |-> F[Len(results)]]

\* the join of _gather_mixer_matches with the first exception re-raised, as
\* gather does without return_exceptions
JoinResultsPropagating(results) ==
    LET F[i \in 0..Len(results)] ==
            IF i = 0 THEN <<>> ELSE F[i - 1] \o results[i].value
    IN  [raised |-> \E i \in 1..Len(results) : results[i].state = "raised",
         matches |-> F[Len(results)]]

\* the join of _gather_mixer_matches (lines 257-263): exceptions among the
\* results are skipped, the other results concatenated in task order
JoinResults(results) ==
    LET F[i \in 0..Len(results)] ==
            IF i = 0 THEN <<>>
            ELSE IF results[i].state = "raised" THEN F[i - 1]
            ELSE F[i - 1] \o results[i].value
    IN  [raised |-> FALSE, matches |-> F[Len(results)]]

\* lines 223-243 of analyze: score, level, sources and the result
BuildResult(address, network, explorer, mixer_clients, weights, hops, matches) ==
    LET r == Evaluate(weights, matches, hops)
    IN  [address |-> address, network |-> network,
         risk_score |-> r.score, risk_level |-> RiskLevelFromScore(r.score),
         hops |-> hops, mixers |-> matches, notes |-> r.notes,
         sources |-> BuildSources(explorer, mixer_clients)]

(***************************************************************************)
(* State.                                                                  *)
(***************************************************************************)
VARIABLES
    riskIn,     \* RiskModel.evaluate: the model's weights and the arguments
    riskOut,    \* RiskModel.evaluate: what it returned, once it has
    pc,         \* where the analyzer is: new, ctor_raised, idle, fetching,
                \* gathering, returned, raised
    ctor,       \* the arguments of the constructor call
    explorers,  \* self._explorers
    mixers,     \* self._mixers
    risk_model, \* the weights of self._risk_model
    call,       \* analyze in progress: address, network, explorer, hops
    tasks,      \* the detect_mixers tasks of the gather, in client order
    trace,      \* the client calls analyze has started, in order
    result,     \* <<the AddressAnalysisResult returned>>, or <<>>
    error,      \* the exception raised, or ""
    clock,      \* what _current_timestamp() returns
    webhook,    \* MonitoringService._webhook is set (a webhook_url was given)
    events,     \* MonitoringService._events
    watches,    \* MonitoringService._watches, in insertion order
    api_state,  \* MonitoringService._api_state, in insertion order
    pending,    \* the webhook tasks created and not yet run, oldest first
    effects,    \* what the last operation emitted and attempted, in order
    monError,   \* the exception the last operation raised, or ""
    appended,   \* every event handed to _register_event so far, in order
    ops,        \* the number of operations so far
    history,    \* the calls of the public operations since Init, in order
    lastEnv,    \* <<whether the last operation found a running event loop>>
    attempts,   \* the events WebhookNotifier.send was run for, in order
    lastRead,   \* <<what the last read operation returned>>, or <<>>
    briefIn,    \* generate_briefing: the result and what the clock will read
    briefOut,   \* <<the AnalystBriefing returned>>, or <<>>
    secrets,    \* what os.getenv and the local env file hold for each name
    exClient,   \* <<the explorer client constructed last>>, or <<>>
    exOut,      \* <<the outcome of the last explorer operation>>, or <<>>
    mixIn,      \* detect_mixers: <<the watchlist source and the arguments>>
    mixOut      \* <<what detect_mixers returned and the watchlist after>>

analyzerVars ==
    <<pc, ctor, explorers, mixers, risk_model, call, tasks, trace, result, error>>

riskVars == <<riskIn, riskOut>>

monitoringVars ==
    <<clock, webhook, events, watches, api_state, pending, effects, monError,
      appended, ops, history, lastEnv, attempts, lastRead>>

briefingVars == <<briefIn, briefOut>>

explorerVars == <<secrets, exClient, exOut>>

mixerVars == <<mixIn, mixOut>>

vars == <<riskVars, analyzerVars, monitoringVars, briefingVars, explorerVars, mixerVars>>

NoCall == [address |-> "", network |-> "", explorer |-> 0, hops |-> <<>>]

RiskIdle ==
    /\ riskIn = [weights |-> RiskModelInit(NoWeights), mixers |-> <<>>, hops |-> <<>>]
    /\ riskOut = [done |-> FALSE, score |-> Zero, notes |-> <<>>]

AnalyzerIdle ==
    /\ pc = "new"
    /\ ctor = [explorer_clients |-> <<>>, mixer_clients |-> <<>>, risk_model |-> <<>>]
    /\ explorers = <<>>
    /\ mixers = <<>>
    /\ risk_model = RiskModelInit(NoWeights)
    /\ call = NoCall
    /\ tasks = <<>>
    /\ trace = <<>>
    /\ result = <<>>
    /\ error = ""

\* MonitoringService.__init__ without a webhook_url
MonitoringIdle ==
    /\ clock = 0
    /\ webhook = FALSE
    /\ events = <<>>
    /\ watches = <<>>
    /\ api_state = <<>>
    /\ pending = <<>>
    /\ effects = <<>>
    /\ monError = ""
    /\ appended = <<>>
    /\ ops = 0
    /\ history = <<>>
    /\ lastEnv = <<>>
    /\ attempts = <<>>
    /\ lastRead = <<>>

\* no briefing was asked for
BriefingIdle ==
    /\ briefIn = <<>>
    /\ briefOut = <<>>

\* no explorer client of explorers.py is in use and no secret is set
ExplorersIdle ==
    /\ secrets = <<>>
    /\ exClient = <<>>
    /\ exOut = <<>>

\* detect_mixers is not called on its own
MixerIdle ==
    /\ mixIn = <<>>
    /\ mixOut = <<>>

(***************************************************************************)
(* RiskModel.evaluate on its own.                                          *)
(***************************************************************************)
RiskInit ==
    /\ riskIn \in [weights : {RiskModelInit(w) : w \in SuppliedWeights},
                   mixers : MatchLists, hops : HopLists]
    /\ riskOut = [done |-> FALSE, score |-> Zero, notes |-> <<>>]
    /\ AnalyzerIdle
    /\ MonitoringIdle
    /\ BriefingIdle
    /\ ExplorersIdle
    /\ MixerIdle

EvaluateCall ==
    /\ ~riskOut.done
    /\ LET r == Evaluate(riskIn.weights, riskIn.mixers, riskIn.hops)
       IN  riskOut' = [done |-> TRUE, score |-> r.score, notes |-> r.notes]
    /\ UNCHANGED <<riskIn, analyzerVars, monitoringVars, briefingVars, explorerVars, mixerVars>>

RiskNext == EvaluateCall

SpecRisk == RiskInit /\ [][RiskNext]_vars

(***************************************************************************)
(* Claims on RiskModel.evaluate.                                           *)
(***************************************************************************)
\* C5: RiskModel.evaluate returns a score within [0,1] for every hop list,
\* every list of matches and every weights mapping supplied at construction.
C5_ScoreWithinUnitInterval ==
    riskOut.done => RLe(Zero, riskOut.score) /\ RLe(riskOut.score, One)

\* The four terms of the score as the claim C7 words them.
TermM(w, matches) ==
    IF matches = <<>> THEN Zero
    ELSE LET confs == {matches[i].confidence : i \in 1..Len(matches)}
             best == CHOOSE c \in confs : \A d \in confs : RLe(d, c)
         IN  RAdd(w.MIXER_DETECTED, RMul(<<1, 10>>, best))

TermF(w, hops) ==
    LET idx == 1..Len(hops)
        dests(s) == {hops[i].to_address : i \in {j \in idx : hops[j].from_address = s}}
        counts == {Cardinality(dests(hops[i].from_address)) : i \in idx} \cup {0}
    IN  RMul(w.FAN_OUT, RMin(One, Rat(SetMax(counts), 20)))

Span(hops) ==
    LET stamps == {hops[i].timestamp : i \in 1..Len(hops)}
    IN  SetMax(stamps) - SetMin(stamps)

\* the consecutive deltas of the ascending hops sum to the span
AverageDelta(hops) ==
    IF Len(hops) < 2 THEN Zero ELSE Rat(Span(hops), Len(hops) - 1)

TermR(w, hops) == IF Span(hops) < 86400 THEN w.FRESH_FUNDS ELSE Zero

TermC(w, hops) ==
    RMul(w.RAPID_CIRCULATION,
         IF RLe(AverageDelta(hops), Zero) THEN One
         ELSE RMin(One, RDiv(<<600, 1>>, AverageDelta(hops))))

\* C7 as claimed, for hop lists with at least one hop (the average of no
\* delta read as 0, the sum of no delta): the score is min(1, M + F + R + C).
C7_ScoreFormulaAsClaimed ==
    (riskOut.done /\ riskIn.hops # <<>>) =>
        riskOut.score =
            RMin(One, RAdd(RAdd(RAdd(TermM(riskIn.weights, riskIn.mixers),
                                     TermF(riskIn.weights, riskIn.hops)),
                                TermR(riskIn.weights, riskIn.hops)),
                           TermC(riskIn.weights, riskIn.hops)))

\* C7 amended: the score is min(1, M + F + R + C), clamped once after the
\* sum, where R is 0 when there is no hop and C is 0 when there are fewer
\* than two hops; otherwise the terms are as claimed.
C7_ScoreFormula ==
    riskOut.done =>
        LET w == riskIn.weights
            hops == riskIn.hops
            R == IF hops = <<>> THEN Zero ELSE TermR(w, hops)
            C == IF Len(hops) < 2 THEN Zero ELSE TermC(w, hops)
        IN  riskOut.score =
                RMin(One, RAdd(RAdd(RAdd(TermM(w, riskIn.mixers), TermF(w, hops)), R), C))

\* a score was returned for two or more hops whose unclamped sum exceeds 1
C7_Witness ==
    /\ riskOut.done
    /\ Len(riskIn.hops) >= 2
    /\ riskIn.mixers # <<>>
    /\ riskOut.score = One
    /\ RLt(One, RAdd(TermM(riskIn.weights, riskIn.mixers),
                     TermC(riskIn.weights, riskIn.hops)))

(***************************************************************************)
(* ArcheBlowAnalyzer: construction and analyze, one action per step        *)
(* between two suspension points.                                          *)
(***************************************************************************)
Init ==
    /\ RiskIdle
    /\ AnalyzerIdle
    /\ MonitoringIdle
    /\ BriefingIdle
    /\ ExplorersIdle
    /\ MixerIdle

\* ArcheBlowAnalyzer(explorer_clients, mixer_clients, risk_model=...)
Construct ==
    /\ pc = "new"
    /\ \E ec \in InjSeqsUpTo(ExplorerClients, MaxExplorers),
          mc \in InjSeqsUpTo(MixerClients, MaxMixers),
          rm \in RiskModels :
        /\ ctor' = [explorer_clients |-> ec, mixer_clients |-> mc, risk_model |-> rm]
        /\ IF ConstructorRaises(ec)
           THEN /\ pc' = "ctor_raised"
                /\ error' = "ValueError"
                /\ UNCHANGED <<explorers, mixers, risk_model>>
           ELSE /\ pc' = "idle"
                /\ explorers' = ec
                /\ mixers' = mc
                /\ risk_model' = IF rm = <<>> THEN RiskModelInit(NoWeights) ELSE rm[1]
                /\ UNCHANGED error
    /\ UNCHANGED <<call, tasks, trace, result, riskVars, monitoringVars, briefingVars, explorerVars, mixerVars>>

\* analyze returns: lines 223-243
Return(hops, matches) ==
    /\ pc' = "returned"
    /\ result' = <<BuildResult(call.address, call.network, explorers[call.explorer],
                               mixers, risk_model, hops, matches)>>

\* analyze(address, network) up to the await of the fetch, or the
\* LookupError of _select_explorer
Analyze ==
    /\ pc \in {"idle", "returned", "raised"}
    /\ \E address \in AnalyzedAddresses, network \in Network :
        LET explorer == SelectExplorer(explorers, network)
        IN  /\ call' = [address |-> address, network |-> network,
                        explorer |-> explorer, hops |-> <<>>]
            /\ IF explorer = 0
               THEN /\ pc' = "raised"
                    /\ error' = "LookupError"
                    /\ trace' = <<>>
               ELSE /\ pc' = "fetching"
                    /\ error' = ""
                    /\ trace' = <<[op |-> "fetch", client |-> explorer]>>
    /\ tasks' = <<>>
    /\ result' = <<>>
    /\ UNCHANGED <<ctor, explorers, mixers, risk_model, riskVars, monitoringVars, briefingVars, explorerVars, mixerVars>>

\* the fetch returns hops; analyze runs on to the await of the gather, or
\* to its return when no mixer client is configured (lines 254-255)
FetchReturns ==
    /\ pc = "fetching"
    /\ \E hops \in FetchHopLists :
        /\ call' = [call EXCEPT !.hops = hops]
        /\ IF mixers = <<>>
           THEN /\ Return(hops, <<>>)
                /\ UNCHANGED tasks
           ELSE /\ pc' = "gathering"
                /\ tasks' = [i \in 1..Len(mixers) |->
                                [state |-> "scheduled", value |-> <<>>, done |-> 0]]
                /\ UNCHANGED result
    /\ UNCHANGED <<ctor, explorers, mixers, risk_model, trace, error, riskVars, monitoringVars, briefingVars, explorerVars, mixerVars>>

\* a fallback on the next explorer of the network when the fetch raises
FetchRaisesFallback ==
    /\ pc = "fetching"
    /\ LET later == {i \in (call.explorer + 1)..Len(explorers) :
                        explorers[i].network = call.network}
       IN  IF later = {}
           THEN /\ pc' = "raised"
                /\ error' = "ExplorerAPIError"
                /\ UNCHANGED <<call, trace>>
           ELSE /\ call' = [call EXCEPT !.explorer = SetMin(later)]
                /\ trace' = Append(trace, [op |-> "fetch", client |-> SetMin(later)])
                /\ UNCHANGED <<pc, error>>
    /\ UNCHANGED <<ctor, explorers, mixers, risk_model, tasks, result, riskVars, monitoringVars, briefingVars, explorerVars, mixerVars>>

\* the fetch raises a transport/protocol error: analyze does not catch it
FetchRaises ==
    /\ pc = "fetching"
    /\ pc' = "raised"
    /\ error' = "ExplorerAPIError"
    /\ UNCHANGED <<ctor, explorers, mixers, risk_model, call, tasks, trace, result, riskVars, monitoringVars, briefingVars, explorerVars, mixerVars>>

\* the event loop starts the next detect_mixers task, which runs to its
\* first await; the tasks of a gather are started in client order
TaskStarts ==
    /\ pc = "gathering"
    /\ \E i \in 1..Len(tasks) :
        /\ tasks[i].state = "scheduled"
        /\ \A j \in 1..(i - 1) : tasks[j].state # "scheduled"
        /\ tasks' = [tasks EXCEPT ![i].state = "running"]
        /\ trace' = Append(trace, [op |-> "detect", client |-> i])
    /\ UNCHANGED <<pc, ctor, explorers, mixers, risk_model, call, result, error, riskVars, monitoringVars, briefingVars, explorerVars, mixerVars>>

\* a running detect_mixers task returns its matches or raises
TaskFinishes ==
    /\ pc = "gathering"
    /\ \E i \in 1..Len(tasks) :
        /\ tasks[i].state = "running"
        /\ tasks' = [tasks EXCEPT ![i] =
                        Finished(TaskOutcome(mixers[i], call.address, call.hops),
                                 1 + Cardinality({j \in 1..Len(tasks) : tasks[j].done > 0}))]
    /\ UNCHANGED <<pc, ctor, explorers, mixers, risk_model, call, trace, result, error, riskVars, monitoringVars, briefingVars, explorerVars, mixerVars>>

AllTasksDone == \A i \in 1..Len(tasks) : tasks[i].state \in {"returned", "raised"}

\* every task is done: the gather resumes analyze, which joins the results
\* and returns
Join ==
    /\ pc = "gathering"
    /\ AllTasksDone
    /\ LET joined == JoinResults(tasks)
       IN  IF joined.raised
           THEN /\ pc' = "raised"
                /\ error' = "Exception"
                /\ UNCHANGED result
           ELSE /\ Return(call.hops, joined.matches)
                /\ UNCHANGED error
    /\ UNCHANGED <<ctor, explorers, mixers, risk_model, call, tasks, trace, riskVars, monitoringVars, briefingVars, explorerVars, mixerVars>>

Next ==
    \/ Construct
    \/ Analyze
    \/ FetchReturns
    \/ FetchRaises
    \/ TaskStarts
    \/ TaskFinishes
    \/ Join

Spec == Init /\ [][Next]_vars

(***************************************************************************)
(* Claims on ArcheBlowAnalyzer.                                            *)
(***************************************************************************)
CountIn(seq, x) == Cardinality({i \in 1..Len(seq) : seq[i] = x})

InCall == pc \in {"fetching", "gathering", "returned", "raised"}

\* C1: for a non-empty list of mixer sources of which any subset raises,
\* analyze still returns (no failure comes from a mixer source), every
\* source that does not raise has run to completion, and result.mixers
\* holds exactly the matches of the sources that did not raise.
C1_MixerFailureIsolation ==
    /\ pc = "raised" => /\ error \in {"LookupError", "ExplorerAPIError"}
                        /\ tasks = <<>>
    /\ (pc = "returned" /\ mixers # <<>>) =>
        LET returned == {i \in 1..Len(mixers) : ~mixers[i].raises}
            found(i) == DetectMixers(mixers[i], call.address, call.hops)
            all == UNION {{found(i)[k] : k \in 1..Len(found(i))} : i \in returned}
        IN  /\ Len(tasks) = Len(mixers)
            /\ \A i \in 1..Len(mixers) :
                   /\ tasks[i].state = IF i \in returned THEN "returned" ELSE "raised"
                   /\ i \in returned => tasks[i].value = found(i)
            /\ \A k \in 1..Len(result[1].mixers) : result[1].mixers[k] \in all
            /\ \A m \in all :
                   CountIn(result[1].mixers, m)
                       = SumInts([i \in 1..Len(mixers) |->
                             IF i \in returned THEN CountIn(found(i), m) ELSE 0])

\* analyze has returned the match of one source although another one raised
C1_Witness ==
    /\ pc = "returned"
    /\ \E i, j \in 1..Len(mixers) :
        /\ tasks[i].state = "raised"
        /\ tasks[j].state = "returned"
        /\ tasks[j].value # <<>>
    /\ result[1].mixers # <<>>

\* C28: result.mixers holds the matches of the first configured source,
\* then those of the second, and so on, each in the order its source
\* returned them, whatever the order the detect_mixers tasks completed in.
C28_MixersInSourceOrder ==
    (pc = "returned" /\ mixers # <<>>) =>
        LET found(i) == IF mixers[i].raises THEN <<>>
                        ELSE DetectMixers(mixers[i], call.address, call.hops)
            upTo(i) == SumInts([k \in 1..i |-> Len(found(k))])
        IN  /\ Len(result[1].mixers) = upTo(Len(mixers))
            /\ \A i \in 1..Len(mixers) :
                   \A k \in 1..Len(found(i)) :
                       result[1].mixers[upTo(i - 1) + k] = found(i)[k]

\* both sources matched, the second one completed first, and the match of
\* the first one comes first in the result
C28_Witness ==
    /\ pc = "returned"
    /\ Len(mixers) = 2
    /\ tasks[1].value # <<>>
    /\ tasks[2].value # <<>>
    /\ tasks[2].done = 1
    /\ tasks[1].done = 2
    /\ result[1].mixers = tasks[1].value \o tasks[2].value

\* C2: when the selected explorer's fetch raises, analyze raises that
\* error: the explorer was called once, no other explorer and no mixer
\* source was called, and there is no result.
C2_ExplorerErrorPropagates ==
    (pc = "raised" /\ error = "ExplorerAPIError") =>
        /\ trace = <<[op |-> "fetch", client |-> SelectExplorer(explorers, call.network)]>>
        /\ tasks = <<>>
        /\ result = <<>>

\* the fetch raised with a second explorer of the network and a mixer
\* source registered
C2_Witness ==
    /\ pc = "raised"
    /\ error = "ExplorerAPIError"
    /\ Cardinality({i \in 1..Len(explorers) : explorers[i].network = call.network}) = 2
    /\ mixers # <<>>

\* C3: a constructor call with no explorer client raises, whatever the
\* mixer clients: there is no analyzer and analyze never runs.
C3_NoExplorersFailsConstruction ==
    (pc # "new" /\ ctor.explorer_clients = <<>>) =>
        /\ pc = "ctor_raised"
        /\ error = "ValueError"
        /\ explorers = <<>> /\ mixers = <<>>
        /\ call = NoCall /\ trace = <<>> /\ result = <<>>

\* the constructor raised although two mixer clients were supplied
C3_Witness ==
    /\ pc = "ctor_raised"
    /\ Len(ctor.mixer_clients) = 2

\* C4: analyze uses the first explorer in registration order whose network
\* is the requested one; with none it raises LookupError before any fetch
\* or mixer detection has started.
C4_FirstExplorerOfNetwork ==
    LET matching == {i \in 1..Len(explorers) : explorers[i].network = call.network}
    IN  InCall =>
            IF matching = {}
            THEN /\ pc = "raised" /\ error = "LookupError"
                 /\ trace = <<>> /\ tasks = <<>> /\ result = <<>>
            ELSE /\ call.explorer \in matching
                 /\ \A j \in matching : call.explorer <= j
                 /\ trace # <<>>
                 /\ trace[1] = [op |-> "fetch", client |-> call.explorer]
                 /\ \A k \in 2..Len(trace) : trace[k].op = "detect"

\* a result came from the first of two explorers registered for the network
C4_Witness ==
    /\ pc = "returned"
    /\ Cardinality({i \in 1..Len(explorers) : explorers[i].network = call.network}) = 2
    /\ call.explorer = 1
    /\ result[1].sources[1] = DisplayName(explorers[1])

\* C6: in every result, risk_level is the step function of risk_score:
\* critical from 0.75, high from 0.5, moderate from 0.25, low below.
C6_RiskLevelIsStepOfScore ==
    pc = "returned" =>
        LET score == result[1].risk_score
            level == result[1].risk_level
        IN  /\ level \in {"critical", "high", "moderate", "low"}
            /\ level = "critical" <=> RLe(<<3, 4>>, score)
            /\ level = "high" <=> (RLe(<<1, 2>>, score) /\ RLt(score, <<3, 4>>))
            /\ level = "moderate" <=> (RLe(<<1, 4>>, score) /\ RLt(score, <<1, 2>>))
            /\ level = "low" <=> RLt(score, <<1, 4>>)

\* a result whose score is exactly the threshold 0.25
C6_Witness ==
    /\ pc = "returned"
    /\ result[1].risk_score = <<1, 4>>
    /\ result[1].risk_level = "moderate"

\* C8: with the default weights, a result with at least one mixer match
\* has risk_level high or critical and carries the mixer note.
C8_MixerMatchMeansHighRisk ==
    (pc = "returned" /\ risk_model = RiskModelInit(NoWeights)
        /\ result[1].mixers # <<>>) =>
        /\ result[1].risk_level \in {"high", "critical"}
        /\ \E k \in 1..Len(result[1].notes) : result[1].notes[k] = NoteMixer

\* a watchlist source matched the destination of a hop
C8_Witness ==
    /\ pc = "returned"
    /\ risk_model = RiskModelInit(NoWeights)
    /\ Len(result[1].mixers) = 1
    /\ result[1].mixers[1].confidence = <<63, 100>>
    /\ Len(result[1].hops) = 1
    /\ result[1].risk_level = "critical"

\* C9: result.sources is the explorer's display name followed by the
\* display names of all configured mixer sources in order, raising or not,
\* later duplicates dropped; no name occurs twice.
C9_SourcesDeduplicated ==
    pc = "returned" =>
        LET names == <<DisplayName(explorers[call.explorer])>>
                     \o [i \in 1..Len(mixers) |-> DisplayName(mixers[i])]
            sources == result[1].sources
            first(n) == SetMin({i \in 1..Len(names) : names[i] = n})
        IN  /\ \A i, j \in 1..Len(sources) : sources[i] = sources[j] => i = j
            /\ {sources[i] : i \in 1..Len(sources)} = {names[i] : i \in 1..Len(names)}
            /\ sources[1] = names[1]
            /\ \A i, j \in 1..Len(sources) :
                   i < j => first(sources[i]) < first(sources[j])

\* two sources share a display name, one of them raised, and the name is
\* listed once
C9_Witness ==
    /\ pc = "returned"
    /\ Len(mixers) = 2
    /\ DisplayName(mixers[1]) = DisplayName(mixers[2])
    /\ \E i \in 1..2 : tasks[i].state = "raised"
    /\ Len(result[1].sources) = 2

(***************************************************************************)
(* MonitoringService (monitoring.py:83-337).                               *)
(***************************************************************************)
\* the length the event log is cut back to
MaxEvents == 200

\* seconds in a day
DaySeconds == 86400

\* an absent value (None) is <<>>, a present one <<v>>
None == <<>>

Some(v) == <<v>>

MonitoringEvent(timestamp, level, category, source, message, details) ==
    [timestamp |-> timestamp, level |-> level, category |-> category,
     source |-> source, message |-> message, details |-> details]

MonitoringWatch(address, network, created_at, expires_at, comment) ==
    [address |-> address, network |-> network, created_at |-> created_at,
     expires_at |-> expires_at, comment |-> comment]

\* _resolve_service_name: the display name of API_SERVICE_KEYS, else the id
ResolveServiceName(service_id) ==
    IF service_id = "blockcypher" THEN "BlockCypher API"
    ELSE IF service_id = "heuristic_mixer" THEN "Heuristic Mixer Watchlist"
    ELSE service_id

\* the cut of _register_event keeping the head of the log
TruncateEventsHead(log) ==
    IF Len(log) > MaxEvents THEN SubSeq(log, 1, MaxEvents) ELSE log

\* the cut of _register_event: self._events[:] = self._events[-200:]
TruncateEvents(log) ==
    IF Len(log) > MaxEvents
    THEN SubSeq(log, Len(log) - MaxEvents + 1, Len(log))
    ELSE log

\* what WebhookNotifier.send can do: post the event, catch an
\* httpx.HTTPError and return, or raise any other exception
SendOutcomes == {"ok", "http_error", "exception"}

\* how an operation finds its environment: whether an event loop is running
\* and what WebhookNotifier.send does when it is run inline
Environments ==
    IF webhook
    THEN {[loop_running |-> TRUE, send |-> "ok"]}
         \cup [loop_running : {FALSE}, send : SendOutcomes]
    ELSE {[loop_running |-> FALSE, send |-> "ok"]}

\* _dispatch_webhook that runs send inline whether a loop is running or not
DispatchWebhookInline(event, emitted, env) ==
    /\ effects' = IF webhook
                  THEN emitted \o <<[kind |-> "webhook_sync", payload |-> event]>>
                  ELSE emitted
    /\ pending' = pending
    /\ attempts' = IF webhook THEN Append(attempts, event) ELSE attempts
    /\ monError' = IF webhook /\ env.send = "exception" THEN "Exception" ELSE ""

\* _dispatch_webhook that hands the event to send twice
DispatchWebhookTwice(event, emitted, env) ==
    /\ effects' = IF webhook
                  THEN emitted \o <<[kind |-> "webhook_sync", payload |-> event],
                                    [kind |-> "webhook_sync", payload |-> event]>>
                  ELSE emitted
    /\ pending' = pending
    /\ attempts' = IF webhook THEN attempts \o <<event, event>> ELSE attempts
    /\ monError' = IF webhook /\ env.send = "exception" THEN "Exception" ELSE ""

\* _dispatch_webhook(event), `emitted` being what the operation has done
\* already: nothing without a webhook, a task on the running loop, or
\* asyncio.run(send(event)), which hands on what send raises
DispatchWebhook(event, emitted, env) ==
    IF ~webhook
    THEN /\ effects' = emitted
         /\ pending' = pending
         /\ attempts' = attempts
         /\ monError' = ""
    ELSE IF env.loop_running
    THEN /\ effects' = emitted \o <<[kind |-> "webhook_task", payload |-> event]>>
         /\ pending' = Append(pending, event)
         /\ attempts' = attempts
         /\ monError' = ""
    ELSE /\ effects' = emitted \o <<[kind |-> "webhook_sync", payload |-> event]>>
         /\ pending' = pending
         /\ attempts' = Append(attempts, event)
         /\ monError' = IF env.send = "exception" THEN "Exception" ELSE ""

\* _register_event called ahead of what the operation emits itself
RegisterEventFirst(event, before, env) ==
    /\ events' = TruncateEvents(Append(events, event))
    /\ appended' = Append(appended, event)
    /\ lastEnv' = Some(env.loop_running)
    /\ DispatchWebhook(event,
           <<[kind |-> "appended", payload |-> event],
             [kind |-> "event_recorded", payload |-> event]>> \o before, env)

\* _register_event(event), `before` being what the operation has emitted
\* already: append, cut the log, emit event_recorded, dispatch
RegisterEvent(event, before, env) ==
    /\ events' = TruncateEvents(Append(events, event))
    /\ appended' = Append(appended, event)
    /\ lastEnv' = Some(env.loop_running)
    /\ DispatchWebhook(event,
           before \o <<[kind |-> "appended", payload |-> event],
                       [kind |-> "event_recorded", payload |-> event]>>, env)

\* the entry of `history` for a call of `op` with the arguments `args`
Called(op, args) == Append(history, [op |-> op, args |-> args, at |-> clock])

\* the arguments log is called with
LogCalls ==
    { [level |-> "warning", message |-> "note", source |-> "ui"] }

\* log(level, message, source=...)
Log ==
    /\ ops < MaxOps
    /\ \E c \in LogCalls, env \in Environments :
        /\ RegisterEvent(MonitoringEvent(clock, c.level, "general", c.source,
                                         c.message, <<>>), <<>>, env)
        /\ history' = Called("log", c)
    /\ ops' = ops + 1
    /\ UNCHANGED <<clock, webhook, watches, api_state, lastRead, riskVars, analyzerVars, briefingVars, explorerVars, mixerVars>>

\* the arguments record_api_error and record_api_success are called with
ApiCalls ==
    { [service_id |-> "blockcypher", address |-> None, network |-> None],
      [service_id |-> "etherscan", address |-> Some("0xAB"),
       network |-> Some("ethereum")] }

\* the payload of record_api_error and record_api_success (no details given)
ApiPayload(c) ==
    (IF c.address # None /\ c.address[1] # ""
        THEN "address" :> c.address[1] ELSE <<>>)
    @@ (IF c.network # None THEN "network" :> c.network[1] ELSE <<>>)
    @@ ("service_id" :> c.service_id)
    @@ ("service_name" :> ResolveServiceName(c.service_id))

StateIndex(service_id) ==
    IF \E i \in 1..Len(api_state) : api_state[i].service_id = service_id
    THEN CHOOSE i \in 1..Len(api_state) : api_state[i].service_id = service_id
    ELSE Len(api_state) + 1

\* the entry _api_state.setdefault(service_id, {...}) returns
StateOrDefault(service_id) ==
    IF StateIndex(service_id) <= Len(api_state)
    THEN api_state[StateIndex(service_id)]
    ELSE [service_id |-> service_id,
          service_name |-> ResolveServiceName(service_id),
          status |-> "ok", failures |-> 0, last_error |-> None,
          last_error_message |-> None, last_success |-> None,
          last_message |-> None]

PutState(state) ==
    IF StateIndex(state.service_id) <= Len(api_state)
    THEN [api_state EXCEPT ![StateIndex(state.service_id)] = state]
    ELSE Append(api_state, state)

\* record_api_success that leaves the status as it finds it
SuccessStateSticky(state, message) ==
    [state EXCEPT !.last_success = Some(clock), !.last_message = Some(message)]

\* record_api_success that starts the failure count again
SuccessStateResetting(state, message) ==
    [state EXCEPT !.status = "ok", !.failures = 0,
                  !.last_success = Some(clock), !.last_message = Some(message)]

\* what record_api_error writes into the state of the service
ErrorState(state, message) ==
    [state EXCEPT !.status = "error",
                  !.failures = state.failures + 1,
                  !.last_error = Some(clock),
                  !.last_error_message = Some(message),
                  !.last_message = Some(message)]

\* what record_api_success writes into the state of the service
SuccessState(state, message) ==
    [state EXCEPT !.status = "ok",
                  !.last_success = Some(clock),
                  !.last_message = Some(message)]

\* record_api_success that takes every success for a recovery
RecoveringAlways(state) == TRUE

\* the test of record_api_success: if state.get("failures", 0)
Recovering(state) == state.failures # 0

\* record_api_error(service_id, message, address=..., network=...)
RecordApiError ==
    /\ ops < MaxOps
    /\ \E c \in ApiCalls, env \in Environments :
        LET message == "timeout"
            state == StateOrDefault(c.service_id)
        IN  /\ api_state' = PutState(ErrorState(state, message))
            /\ RegisterEvent(MonitoringEvent(clock, "error", "api", c.service_id,
                                             message, ApiPayload(c)), <<>>, env)
            /\ history' = Called("record_api_error", c)
    /\ ops' = ops + 1
    /\ UNCHANGED <<clock, webhook, watches, lastRead, riskVars, analyzerVars, briefingVars, explorerVars, mixerVars>>

\* record_api_success(service_id, message, address=..., network=...)
RecordApiSuccess ==
    /\ ops < MaxOps
    /\ \E c \in ApiCalls, env \in Environments :
        LET message == "recovered"
            state == StateOrDefault(c.service_id)
        IN  /\ api_state' = PutState(SuccessState(state, message))
            /\ IF Recovering(state)
               THEN RegisterEvent(MonitoringEvent(clock, "info", "api", c.service_id,
                                                  message, ApiPayload(c)), <<>>, env)
               ELSE /\ effects' = <<>>
                    /\ monError' = ""
                    /\ lastEnv' = None
                    /\ UNCHANGED <<events, appended, pending, attempts>>
            /\ history' = Called("record_api_success", c)
    /\ ops' = ops + 1
    /\ UNCHANGED <<clock, webhook, watches, lastRead, riskVars, analyzerVars, briefingVars, explorerVars, mixerVars>>

\* active_api_incidents(): the states with status error, in the order of
\* _api_state
ActiveApiIncidents == SelectSeq(api_state, LAMBDA state : state.status = "error")

\* a call of active_api_incidents()
ActiveApiIncidentsCall ==
    /\ lastRead' = Some([op |-> "active_api_incidents", at |-> clock,
                         value |-> ActiveApiIncidents])
    /\ UNCHANGED <<clock, webhook, events, watches, api_state, pending, effects,
                   monError, appended, ops, history, lastEnv, attempts,
                   riskVars, analyzerVars, briefingVars, explorerVars, mixerVars>>

\* seq[start:] of Python: a negative start counts from the end
SliceFrom(seq, start) ==
    LET n == Len(seq)
        first == IF start < 0 THEN (IF n + start > 0 THEN n + start ELSE 0)
                 ELSE (IF start < n THEN start ELSE n)
    IN  SubSeq(seq, first + 1, n)

\* list(reversed(seq))
Reversed(seq) == [i \in 1..Len(seq) |-> seq[Len(seq) + 1 - i]]

\* recent_events(limit)
RecentEvents(limit) ==
    IF events = <<>> THEN <<>> ELSE Reversed(SliceFrom(events, -limit))

\* the limits recent_events is called with: none, one, the default and
\* more than the log holds
Limits == {0, 1, 10, 250}

\* a call of recent_events(limit)
RecentEventsCall ==
    /\ \E limit \in Limits :
        lastRead' = Some([op |-> "recent_events", at |-> clock,
                          args |-> [limit |-> limit],
                          value |-> RecentEvents(limit)])
    /\ UNCHANGED <<clock, webhook, events, watches, api_state, pending, effects,
                   monError, appended, ops, history, lastEnv, attempts,
                   riskVars, analyzerVars, briefingVars, explorerVars, mixerVars>>

\* the arguments schedule_watch is called with
WatchCalls ==
    { [address |-> "0xAB", network |-> "ethereum", days |-> 30, comment |-> Some("vip")],
      [address |-> "0xab", network |-> "ethereum", days |-> 1, comment |-> None],
      [address |-> "bc1q", network |-> "bitcoin", days |-> 1, comment |-> None] }

\* a key of _watches that keeps the case of the address
WatchKeyCaseSensitive(address, network) == <<address, network>>

\* the key of _watches: (address.lower(), network)
WatchKey(address, network) == <<Lower(address), network>>

WatchIndex(key) ==
    IF \E i \in 1..Len(watches) : watches[i].key = key
    THEN CHOOSE i \in 1..Len(watches) : watches[i].key = key
    ELSE Len(watches) + 1

\* watch_added.emit(watch): the notification, and whether its receiver
\* finds the watch in `table`, the watch table at that moment
EmitWatchAdded(table, watch) ==
    [kind |-> "watch_added", payload |-> watch,
     stored |-> \E i \in 1..Len(table) : table[i].watch = watch]

\* schedule_watch(address, network, days=..., comment=...)
ScheduleWatch ==
    /\ ops < MaxOps
    /\ \E c \in WatchCalls, env \in Environments :
        LET now == clock
            expires_at == now + c.days * DaySeconds
            key == WatchKey(c.address, c.network)
            watch == MonitoringWatch(c.address, c.network, now, expires_at,
                        IF c.comment = None THEN "" ELSE c.comment[1])
            entry == [key |-> key, watch |-> watch]
            stored == IF WatchIndex(key) <= Len(watches)
                      THEN [watches EXCEPT ![WatchIndex(key)] = entry]
                      ELSE Append(watches, entry)
        IN  /\ watches' = stored
            /\ RegisterEvent(
                   MonitoringEvent(clock, "info", "watch", "monitoring",
                       "watch " \o c.address \o " " \o c.network,
                       [address |-> c.address, network |-> c.network,
                        expires_at |-> expires_at, days |-> c.days,
                        comment |-> watch.comment,
                        service_name |-> "monitoring system"]),
                   <<EmitWatchAdded(stored, watch)>>, env)
            /\ history' = Called("schedule_watch", c)
    /\ ops' = ops + 1
    /\ UNCHANGED <<clock, webhook, api_state, lastRead, riskVars, analyzerVars, briefingVars, explorerVars, mixerVars>>

\* sorted(..., key=expires_at) one element at a time: `watch` goes behind
\* every watch of `sorted` that expires no later (the sort is stable)
InsertByExpiry(sorted, watch) ==
    LET k == Cardinality({i \in 1..Len(sorted) :
                            sorted[i].expires_at <= watch.expires_at})
    IN  SubSeq(sorted, 1, k) \o <<watch>> \o SubSeq(sorted, k + 1, Len(sorted))

RECURSIVE SortedByExpiry(_)
SortedByExpiry(ws) ==
    IF ws = <<>> THEN <<>>
    ELSE InsertByExpiry(SortedByExpiry(SubSeq(ws, 1, Len(ws) - 1)), ws[Len(ws)])

\* the values of _watches, in the order of the dict
StoredWatches == [i \in 1..Len(watches) |-> watches[i].watch]

\* active_watches that drops a watch in the second it expires
ActiveWatchesStrict(now) ==
    SortedByExpiry(SelectSeq(StoredWatches, LAMBDA w : w.expires_at > now))

\* active_watches(), `now` being _current_timestamp()
ActiveWatches(now) ==
    SortedByExpiry(SelectSeq(StoredWatches, LAMBDA w : w.expires_at >= now))

\* watch_for(address, network), `now` being _current_timestamp()
WatchFor(address, network, now) ==
    LET kept == SelectSeq(watches, LAMBDA e :
                    /\ e.key[1] = Lower(address)
                    /\ e.key[2] = network
                    /\ e.watch.expires_at >= now)
    IN  SortedByExpiry([i \in 1..Len(kept) |-> kept[i].watch])

\* active_watches() that deletes the watches it does not return
ActiveWatchesCallPurging ==
    /\ lastRead' = Some([op |-> "active_watches", at |-> clock,
                         value |-> ActiveWatches(clock)])
    /\ watches' = SelectSeq(watches, LAMBDA e : e.watch.expires_at >= clock)
    /\ UNCHANGED <<clock, webhook, events, api_state, pending, effects,
                   monError, appended, ops, history, lastEnv, attempts,
                   riskVars, analyzerVars, briefingVars, explorerVars, mixerVars>>

\* a call of watch_for(address, network)
WatchForCall ==
    /\ \E c \in WatchCalls :
        lastRead' = Some([op |-> "watch_for", at |-> clock,
                          args |-> [address |-> c.address, network |-> c.network],
                          value |-> WatchFor(c.address, c.network, clock)])
    /\ UNCHANGED <<clock, webhook, events, watches, api_state, pending, effects,
                   monError, appended, ops, history, lastEnv, attempts,
                   riskVars, analyzerVars, briefingVars, explorerVars, mixerVars>>

\* a call of active_watches()
ActiveWatchesCall ==
    /\ lastRead' = Some([op |-> "active_watches", at |-> clock,
                         value |-> ActiveWatches(clock)])
    /\ UNCHANGED <<clock, webhook, events, watches, api_state, pending, effects,
                   monError, appended, ops, history, lastEnv, attempts,
                   riskVars, analyzerVars, briefingVars, explorerVars, mixerVars>>

\* a day passes
Tick ==
    /\ ops < MaxOps
    /\ clock' = clock + DaySeconds
    /\ ops' = ops + 1
    /\ UNCHANGED <<webhook, events, watches, api_state, pending, effects, monError,
                   appended, history, lastEnv, attempts, lastRead,
                   riskVars, analyzerVars, briefingVars, explorerVars, mixerVars>>

\* thirty days pass
Advance ==
    /\ ops < MaxOps
    /\ clock' = clock + 30 * DaySeconds
    /\ ops' = ops + 1
    /\ UNCHANGED <<webhook, events, watches, api_state, pending, effects, monError,
                   appended, history, lastEnv, attempts, lastRead,
                   riskVars, analyzerVars, briefingVars, explorerVars, mixerVars>>

\* the event loop runs the oldest webhook task: WebhookNotifier.send posts
\* the event; whatever the task raises stays in the task
WebhookTaskRuns ==
    /\ pending # <<>>
    /\ \E outcome \in SendOutcomes :
        /\ pending' = Tail(pending)
        /\ attempts' = Append(attempts, Head(pending))
    /\ UNCHANGED <<clock, webhook, events, watches, api_state, effects, monError,
                   appended, ops, history, lastEnv, lastRead,
                   riskVars, analyzerVars, briefingVars, explorerVars, mixerVars>>

\* the events of n calls of log, the state of a service that did nothing else
LoggedEvents(n) ==
    [i \in 1..n |-> MonitoringEvent(0, "info", "general", "ui", "m" \o ToString(i), <<>>)]

\* MonitoringService(webhook_url=...) just constructed, or
\* MonitoringService() after PrefilledEvents calls of log at time 0;
\* `history` starts here
MonInit ==
    /\ RiskIdle
    /\ AnalyzerIdle
    /\ BriefingIdle
    /\ ExplorersIdle
    /\ MixerIdle
    /\ clock = 0
    /\ \/ /\ webhook \in BOOLEAN
          /\ events = <<>>
          /\ appended = <<>>
       \/ /\ webhook = FALSE
          /\ events = LoggedEvents(PrefilledEvents)
          /\ appended = LoggedEvents(PrefilledEvents)
    /\ attempts = <<>>
    /\ watches = <<>>
    /\ api_state = <<>>
    /\ pending = <<>>
    /\ effects = <<>>
    /\ monError = ""
    /\ ops = 0
    /\ history = <<>>
    /\ lastEnv = None
    /\ lastRead = None

MonNext ==
    \/ Log
    \/ RecordApiError
    \/ RecordApiSuccess
    \/ ScheduleWatch
    \/ Tick
    \/ WebhookTaskRuns

SpecMon == MonInit /\ [][MonNext]_vars

\* the API health table over time: record_api_error, record_api_success
\* and active_api_incidents
ApiNext ==
    \/ RecordApiError
    \/ RecordApiSuccess
    \/ ActiveApiIncidentsCall
    \/ Tick
    \/ WebhookTaskRuns

SpecApi == MonInit /\ [][ApiNext]_vars

\* the event log and its reader: log and recent_events
EventsNext ==
    \/ Log
    \/ RecentEventsCall
    \/ WebhookTaskRuns

SpecEvents == MonInit /\ [][EventsNext]_vars

\* MonitoringService(webhook_url=...) just constructed
WatchInit ==
    /\ RiskIdle
    /\ AnalyzerIdle
    /\ BriefingIdle
    /\ ExplorersIdle
    /\ MixerIdle
    /\ clock = 0
    /\ webhook \in BOOLEAN
    /\ events = <<>>
    /\ appended = <<>>
    /\ attempts = <<>>
    /\ watches = <<>>
    /\ api_state = <<>>
    /\ pending = <<>>
    /\ effects = <<>>
    /\ monError = ""
    /\ ops = 0
    /\ history = <<>>
    /\ lastEnv = None
    /\ lastRead = None

\* the watch table over time: schedule_watch, active_watches and the clock
WatchNext ==
    \/ ScheduleWatch
    \/ ActiveWatchesCall
    \/ WatchForCall
    \/ Tick
    \/ Advance
    \/ WebhookTaskRuns

SpecWatch == WatchInit /\ [][WatchNext]_vars

(***************************************************************************)
(* Claims on the MonitoringService.                                        *)
(***************************************************************************)
\* C10: the event log holds at most 200 events, and they are exactly the
\* most recently appended events in append order: an append beyond 200
\* discards the oldest entries, and nothing else removes or reorders one.
C10_LogKeepsLast200 ==
    /\ Len(events) <= 200
    /\ Len(events) = IF Len(appended) < 200 THEN Len(appended) ELSE 200
    /\ \A i \in 1..Len(events) :
           events[i] = appended[Len(appended) - Len(events) + i]

\* more than 200 events were appended and the log holds the last 200
C10_Witness ==
    /\ Len(appended) > 200
    /\ Len(events) = 200
    /\ events[200] = appended[Len(appended)]
    /\ events[1] # appended[1]

\* the services record_api_error and record_api_success are called for
Providers == {c.service_id : c \in ApiCalls}

\* the calls of `history` made for the service p, in order
CallsFor(p) ==
    SelectSeq(history, LAMBDA h : /\ h.op \in {"record_api_error", "record_api_success"}
                                  /\ h.args.service_id = p)

\* the events appended for the service p with the given level
ApiEvents(p, level) ==
    {i \in 1..Len(appended) : /\ appended[i].category = "api"
                              /\ appended[i].source = p
                              /\ appended[i].level = level}

\* C11: for one provider, the calls record_api_error, record_api_success,
\* record_api_success leave the failure counter at 1 and the state at ok and
\* emit one recovery (info) event in all: the second success emits none.
C11_RecoveryEmittedOnce ==
    \A p \in Providers :
        LET calls == CallsFor(p)
        IN  (/\ Len(calls) = 3
             /\ calls[1].op = "record_api_error"
             /\ calls[2].op = "record_api_success"
             /\ calls[3].op = "record_api_success")
            => /\ StateOrDefault(p).failures = 1
               /\ StateOrDefault(p).status = "ok"
               /\ Cardinality(ApiEvents(p, "info")) = 1

\* the calls of record_api_error made for the service p so far
ErrorCalls(p) == SelectSeq(CallsFor(p), LAMBDA h : h.op = "record_api_error")

\* C12: for every provider the failure counter equals the number of
\* record_api_error calls made for it so far, so it is never decreased or
\* reset by record_api_success or anything else; every record_api_error call
\* sets the provider's state to error and appends exactly one error event.
C12_FailuresCountErrorCalls ==
    \A p \in Providers :
        LET calls == CallsFor(p)
        IN  /\ StateOrDefault(p).failures = Len(ErrorCalls(p))
            /\ Cardinality(ApiEvents(p, "error")) = Len(ErrorCalls(p))
            /\ (calls # <<>> /\ calls[Len(calls)].op = "record_api_error")
               => /\ StateOrDefault(p).status = "error"
                  /\ appended # <<>>
                  /\ \E i \in ApiEvents(p, "error") :
                        \A j \in ApiEvents(p, "error") \cup ApiEvents(p, "info") : j <= i

\* a provider failed twice and a success in between or after left the
\* counter at 2
C12_Witness ==
    \E p \in Providers :
        /\ StateOrDefault(p).failures = 2
        /\ Len(CallsFor(p)) = 3
        /\ \E i \in 1..3 : CallsFor(p)[i].op = "record_api_success"

\* the step is a call of `op` for the service p
ApiCallStep(op, p) ==
    /\ Len(history') = Len(history) + 1
    /\ history'[Len(history')].op = op
    /\ history'[Len(history')].args.service_id = p

\* C13: record_api_success for a provider whose failure counter is zero (a
\* provider never seen before included) sets the state to ok, appends no
\* event, notifies no event subscriber and starts no webhook delivery.
C13_SilentSuccess ==
    [][\A p \in Providers :
          (ApiCallStep("record_api_success", p) /\ StateOrDefault(p).failures = 0)
          => /\ StateOrDefault(p)'.status = "ok"
             /\ appended' = appended
             /\ events' = events
             /\ effects' = <<>>
             /\ pending' = pending
             /\ attempts' = attempts]_vars

\* with a webhook configured, a success was recorded for a provider that
\* never failed and nothing was emitted
C13_Witness ==
    /\ webhook
    /\ history # <<>>
    /\ history[Len(history)].op = "record_api_success"
    /\ StateOrDefault(history[Len(history)].args.service_id).failures = 0
    /\ StateOrDefault(history[Len(history)].args.service_id).status = "ok"
    /\ effects = <<>>
    /\ appended = <<>>

(***************************************************************************)
(* Claims on the watch table.                                              *)
(***************************************************************************)
\* the calls of schedule_watch made so far
ScheduleCalls == SelectSeq(history, LAMBDA h : h.op = "schedule_watch")

\* the lower-cased key of a call of schedule_watch
CallKey(h) == <<Lower(h.args.address), h.args.network>>

\* the last call of schedule_watch for the key k
LastCallFor(k) ==
    LET calls == ScheduleCalls
        last == CHOOSE i \in 1..Len(calls) :
                    /\ CallKey(calls[i]) = k
                    /\ \A j \in (i + 1)..Len(calls) : CallKey(calls[j]) # k
    IN  calls[last]

\* C14: the watch table holds at most one watch per key (lower-cased
\* address, network), the one created by the most recent schedule_watch call
\* for the key, with expires_at = created_at + days x 86400 where created_at
\* is the clock reading of that call.
C14_OneWatchPerKey ==
    LET calls == ScheduleCalls
        keys == {CallKey(calls[i]) : i \in 1..Len(calls)}
        keyOf(w) == <<Lower(w.address), w.network>>
    IN  /\ \A i, j \in 1..Len(watches) :
               keyOf(watches[i].watch) = keyOf(watches[j].watch) => i = j
        /\ {keyOf(watches[i].watch) : i \in 1..Len(watches)} = keys
        /\ \A k \in keys :
               \E i \in 1..Len(watches) :
                   LET h == LastCallFor(k)
                       w == watches[i].watch
                   IN  /\ w.address = h.args.address
                       /\ w.network = h.args.network
                       /\ w.created_at = h.at
                       /\ w.expires_at = h.at + h.args.days * 86400
                       /\ w.comment = IF h.args.comment = <<>> THEN ""
                                      ELSE h.args.comment[1]

\* 0xAB was scheduled for 30 days and then, a day later, 0xab for one day:
\* the table holds the second watch only
C14_Witness ==
    /\ Len(ScheduleCalls) = 2
    /\ ScheduleCalls[1].args.address = "0xAB"
    /\ ScheduleCalls[2].args.address = "0xab"
    /\ ScheduleCalls[2].at = 86400
    /\ Len(watches) = 1
    /\ watches[1].watch.address = "0xab"
    /\ watches[1].watch.created_at = 86400
    /\ watches[1].watch.expires_at = 2 * 86400

\* C15: at any clock value t, active_watches() returns exactly the stored
\* watches with expires_at >= t, ordered by ascending expires_at; so a watch
\* is returned right after it was scheduled and no longer once the clock has
\* passed its expires_at, although nothing deleted it.
C15_ActiveWatchesByExpiry ==
    [][(lastRead' # lastRead /\ lastRead'[1].op = "active_watches") =>
          LET value == lastRead'[1].value
              live == {i \in 1..Len(watches) : watches[i].watch.expires_at >= clock}
          IN  /\ Len(value) = Cardinality(live)
              /\ {value[i] : i \in 1..Len(value)} = {watches[i].watch : i \in live}
              /\ \A i \in 1..(Len(value) - 1) :
                     value[i].expires_at <= value[i + 1].expires_at]_vars

\* a watch scheduled at 0 for 30 days is still stored 31 days later and
\* active_watches() has just returned nothing
C15_Witness ==
    /\ clock = 31 * 86400
    /\ Len(watches) = 1
    /\ watches[1].watch.created_at = 0
    /\ watches[1].watch.expires_at = 30 * 86400
    /\ lastRead # <<>>
    /\ lastRead[1].op = "active_watches"
    /\ lastRead[1].at = clock
    /\ lastRead[1].value = <<>>

\* the most recent record_api_* call for the service p was an error
LastCallFailed(p) ==
    /\ CallsFor(p) # <<>>
    /\ CallsFor(p)[Len(CallsFor(p))].op = "record_api_error"

\* C27: whatever the interleaving of record_api_error and
\* record_api_success over the providers, a provider's state is error iff
\* the most recent of its calls was record_api_error; a provider in error
\* has failed at least once; and active_api_incidents() returns exactly
\* the states of the providers in error.
C27_ErrorIffLastCallFailed ==
    /\ [](\A p \in Providers :
            /\ StateOrDefault(p).status = "error" <=> LastCallFailed(p)
            /\ StateOrDefault(p).status = "error" => StateOrDefault(p).failures >= 1)
    /\ [][(lastRead' # lastRead /\ lastRead'[1].op = "active_api_incidents") =>
            LET value == lastRead'[1].value
            IN  /\ Len(value) = Cardinality({p \in Providers : LastCallFailed(p)})
                /\ {value[i] : i \in 1..Len(value)}
                   = {StateOrDefault(p) : p \in {q \in Providers : LastCallFailed(q)}}]_vars

\* one provider failed, another failed, the first recovered:
\* active_api_incidents() has returned the state of the second only
C27_Witness ==
    /\ Len(history) = 3
    /\ history[1].op = "record_api_error"
    /\ history[2].op = "record_api_error"
    /\ history[3].op = "record_api_success"
    /\ history[1].args.service_id = history[3].args.service_id
    /\ history[2].args.service_id # history[1].args.service_id
    /\ lastRead # <<>>
    /\ lastRead[1].op = "active_api_incidents"
    /\ Len(lastRead[1].value) = 1
    /\ lastRead[1].value[1].service_id = history[2].args.service_id
    /\ lastRead[1].value = ActiveApiIncidents

WatchKeys(table) == {table[i].key : i \in 1..Len(table)}

\* C24: no operation removes a watch: a key stays in the watch table once
\* it is there, expired or not, so the number of stored watches never
\* decreases; active_watches and watch_for filter what they return and
\* leave the table as it is.
C24_WatchesNeverPurged ==
    [][/\ WatchKeys(watches) \subseteq WatchKeys(watches')
       /\ Len(watches') >= Len(watches)
       /\ lastRead' # lastRead => watches' = watches]_vars

\* a watch scheduled at 0 for one day is still stored 30 days later, after
\* watch_for has returned nothing for its address
C24_Witness ==
    /\ clock = 30 * 86400
    /\ Len(watches) = 1
    /\ watches[1].watch.expires_at = 86400
    /\ lastRead # <<>>
    /\ lastRead[1].op = "watch_for"
    /\ lastRead[1].at = clock
    /\ WatchKey(lastRead[1].args.address, lastRead[1].args.network) = watches[1].key
    /\ lastRead[1].value = <<>>

\* the places of `effects'` where something of `kind` happened
EffectsOf(kind) == {i \in 1..Len(effects') : effects'[i].kind = kind}

\* a call of schedule_watch returns
ScheduleStep ==
    /\ Len(history') = Len(history) + 1
    /\ history'[Len(history')].op = "schedule_watch"

\* C26: every schedule_watch emits exactly one watch-added notification
\* and appends exactly one event, of level info and category watch; the
\* watch is in the table when the notification is delivered, and the
\* notification comes before the event.
C26_WatchAddedThenEvent ==
    [][ScheduleStep =>
          LET added == EffectsOf("watch_added")
              logged == EffectsOf("appended")
          IN  /\ Cardinality(added) = 1
              /\ Cardinality(logged) = 1
              /\ Len(appended') = Len(appended) + 1
              /\ \A a \in added, e \in logged :
                     /\ a < e
                     /\ effects'[a].stored
                     /\ \E i \in 1..Len(watches') :
                            watches'[i].watch = effects'[a].payload
                     /\ effects'[e].payload = appended'[Len(appended')]
                     /\ effects'[e].payload.level = "info"
                     /\ effects'[e].payload.category = "watch"
                     /\ effects'[e].payload.details.address = effects'[a].payload.address]_vars

\* the second schedule_watch for a key has returned: one notification with
\* the new watch, then one watch event
C26_Witness ==
    /\ Len(history) = 2
    /\ history[2].op = "schedule_watch"
    /\ history[1].args.address = "0xAB"
    /\ history[2].args.address = "0xab"
    /\ Len(watches) = 1
    /\ Len(effects) >= 3
    /\ effects[1].kind = "watch_added"
    /\ effects[1].payload = watches[1].watch
    /\ effects[2].kind = "appended"
    /\ effects[2].payload.category = "watch"
    /\ Len(appended) = 2

(***************************************************************************)
(* Claims on the webhook.                                                  *)
(***************************************************************************)
\* C16: no operation that registers an event (log, record_api_error,
\* record_api_success, schedule_watch) ever raises because of the webhook
\* delivery: a failure of any kind, on the task path or on the inline path,
\* is swallowed.
C16_DeliveryFailureSwallowed == monError = ""

\* the step registers an event
RegisterStep == Len(appended') = Len(appended) + 1

\* C17: with a webhook and a running event loop, the operation that registers
\* an event returns with the event in the log and the delivery left to a
\* task that has not run yet; with no running loop the delivery attempt is
\* made inline and is over when the operation returns.
C17_DispatchBranches ==
    [][(webhook /\ RegisterStep) =>
          LET event == appended'[Len(appended')]
          IN  /\ events'[Len(events')] = event
              /\ IF lastEnv'[1]
                 THEN /\ pending' = Append(pending, event)
                      /\ attempts' = attempts
                      /\ monError' = ""
                 ELSE /\ pending' = pending
                      /\ attempts' = Append(attempts, event)]_vars

\* an operation found a running loop and has returned: its event is the
\* last of the log and its delivery is a task that has not run
C17_Witness ==
    /\ webhook
    /\ lastEnv = Some(TRUE)
    /\ monError = ""
    /\ events # <<>>
    /\ pending # <<>>
    /\ pending[Len(pending)] = events[Len(events)]
    /\ CountIn(attempts, events[Len(events)]) = 0

\* what a step that registers `event` adds to the trace of the operation
RegisterTrace(event, inline) ==
    <<[kind |-> "appended", payload |-> event],
      [kind |-> "event_recorded", payload |-> event]>>
    \o (IF ~webhook THEN <<>>
        ELSE IF inline THEN <<[kind |-> "webhook_sync", payload |-> event]>>
        ELSE <<[kind |-> "webhook_task", payload |-> event]>>)

\* C18: every event appended to the log causes exactly one event-recorded
\* notification carrying that event and, if and only if a webhook URL is
\* configured, exactly one delivery attempt for it; the notification comes
\* after the event is in the log and before the delivery attempt is started,
\* and no event is ever delivered twice.
C18_OneNotificationOneDelivery ==
    /\ [][RegisterStep =>
            LET event == appended'[Len(appended')]
                own == SelectSeq(effects', LAMBDA x : x.kind # "watch_added")
            IN  own = RegisterTrace(event, ~lastEnv'[1])]_vars
    /\ [](\A i \in 1..Len(appended) :
            LET event == appended[i]
            IN  CountIn(attempts, event) + CountIn(pending, event) =
                    IF webhook THEN CountIn(appended, event) ELSE 0)

\* with a webhook and no running loop an event was appended, notified and
\* posted inline, once each and in this order
C18_Witness ==
    /\ webhook
    /\ lastEnv = Some(FALSE)
    /\ appended # <<>>
    /\ effects = RegisterTrace(appended[Len(appended)], TRUE)
    /\ CountIn(attempts, appended[Len(appended)]) = 1
    /\ pending = <<>>

(***************************************************************************)
(* ArtificialAnalyst (ai_analyst.py:37-277).  The Russian titles, priority *)
(* names and sentences of the source are given by English tags.            *)
(***************************************************************************)
\* the longest hop list a briefing is asked for
MaxBriefHops == 23

AnalystRecommendation(title, priority) == [title |-> title, priority |-> priority]

\* sum(abs(hop.amount) for hop in hops if hop.amount)
RECURSIVE TotalVolume(_)
TotalVolume(hops) ==
    IF hops = <<>> THEN 0
    ELSE (IF Head(hops).amount # 0 THEN Abs(Head(hops).amount) ELSE 0)
         + TotalVolume(Tail(hops))

\* _collect_counterparties: the endpoints of the hops that are not empty
\* and differ from the address when both are lower-cased (the source returns
\* them sorted; only their number is used)
CollectCounterparties(address, hops) ==
    LET normalized == Lower(address)
        endpoints == {hops[i].from_address : i \in 1..Len(hops)}
                     \cup {hops[i].to_address : i \in 1..Len(hops)}
    IN  {a \in endpoints : a # "" /\ Lower(a) # normalized}

\* max((hop.timestamp for hop in hops), default=0)
LastActivity(hops) ==
    IF hops = <<>> THEN 0
    ELSE CHOOSE t \in {hops[i].timestamp : i \in 1..Len(hops)} :
            \A i \in 1..Len(hops) : hops[i].timestamp <= t

\* _hours_since(timestamp), `now` being what _now_provider() returns
HoursSince(now, timestamp) ==
    Rat(IF now - timestamp > 0 THEN now - timestamp ELSE 0, 3600)

\* _build_summary: the parts of the sentence
BuildSummary(analysis, hop_count, total_volume, recent_window) ==
    <<[part |-> "address", address |-> analysis.address, network |-> analysis.network],
      [part |-> "risk",
       display |-> IF analysis.risk_level \in {"critical", "high", "moderate", "low"}
                   THEN analysis.risk_level ELSE "undefined",
       score |-> analysis.risk_score]>>
    \o (IF hop_count # 0 THEN <<[part |-> "hops", count |-> hop_count]>> ELSE <<>>)
    \o (IF total_volume # 0 THEN <<[part |-> "volume", volume |-> total_volume]>> ELSE <<>>)
    \o (IF recent_window THEN <<[part |-> "recent"]>> ELSE <<>>)

\* _build_highlights
BuildHighlights(analysis, matches, counterparties, total_volume, age_hours) ==
    (IF matches # <<>>
        THEN <<[kind |-> "mixers",
                names |-> {matches[i].mixer_name : i \in 1..Len(matches)}]>>
        ELSE <<>>)
    \o [i \in 1..Len(analysis.notes) |-> [kind |-> "note", text |-> analysis.notes[i]]]
    \o (IF total_volume # 0 THEN <<[kind |-> "volume", volume |-> total_volume]>> ELSE <<>>)
    \o (IF Cardinality(counterparties) >= 10
        THEN <<[kind |-> "counterparties", count |-> Cardinality(counterparties)]>>
        ELSE <<>>)
    \o (IF age_hours # None THEN <<[kind |-> "age", hours |-> age_hours[1]]>> ELSE <<>>)

\* _build_alerts
BuildAlerts(analysis, matches, recent_window) ==
    (IF analysis.risk_level \in {"critical", "high"}
        THEN <<[alert |-> "risk", address |-> analysis.address]>> ELSE <<>>)
    \o (IF matches # <<>>
        THEN <<[alert |-> "mixers", address |-> analysis.address]>> ELSE <<>>)
    \o (IF recent_window
        THEN <<[alert |-> "recent", address |-> analysis.address]>> ELSE <<>>)

\* _build_recommendations with the financial audit ahead of the fresh
\* activity
BuildRecommendationsAuditFirst(analysis, matches, recent_window, total_volume, counterparties) ==
    (IF analysis.risk_level \in {"critical", "high"}
        THEN <<AnalystRecommendation("immediate control measures", "high")>>
        ELSE IF analysis.risk_level = "moderate"
        THEN <<AnalystRecommendation("extended monitoring", "medium")>>
        ELSE <<AnalystRecommendation("routine inspection", "low")>>)
    \o (IF matches # <<>>
        THEN <<AnalystRecommendation("suspicious services review", "high")>> ELSE <<>>)
    \o (IF total_volume >= 10
        THEN <<AnalystRecommendation("financial audit", "high")>> ELSE <<>>)
    \o (IF recent_window
        THEN <<AnalystRecommendation("fresh inflow monitoring", "medium")>> ELSE <<>>)
    \o (IF Cardinality(counterparties) >= 15
        THEN <<AnalystRecommendation("counterparty analysis", "medium")>> ELSE <<>>)

\* _build_recommendations
BuildRecommendations(analysis, matches, recent_window, total_volume, counterparties) ==
    (IF analysis.risk_level \in {"critical", "high"}
        THEN <<AnalystRecommendation("immediate control measures", "high")>>
        ELSE IF analysis.risk_level = "moderate"
        THEN <<AnalystRecommendation("extended monitoring", "medium")>>
        ELSE <<AnalystRecommendation("routine inspection", "low")>>)
    \o (IF matches # <<>>
        THEN <<AnalystRecommendation("suspicious services review", "high")>> ELSE <<>>)
    \o (IF recent_window
        THEN <<AnalystRecommendation("fresh inflow monitoring", "medium")>> ELSE <<>>)
    \o (IF total_volume >= 10
        THEN <<AnalystRecommendation("financial audit", "high")>> ELSE <<>>)
    \o (IF Cardinality(counterparties) >= 15
        THEN <<AnalystRecommendation("counterparty analysis", "medium")>> ELSE <<>>)

\* _estimate_confidence without the cap on the coverage
EstimateConfidenceUncapped(hop_count, matches, recent_window) ==
    RMin(One, RAdd(RAdd(RAdd(IF hop_count >= 3 THEN Rat(4, 10) ELSE Rat(25, 100),
                             Rat(hop_count * 2, 100)),
                        IF matches # <<>> THEN Rat(1, 10) ELSE Zero),
                   IF recent_window THEN Rat(5, 100) ELSE Zero))

\* _estimate_confidence
EstimateConfidence(hop_count, matches, recent_window) ==
    LET base == IF hop_count >= 3 THEN Rat(4, 10) ELSE Rat(25, 100)
        coverage == RMin(Rat(45, 100), RMul(Rat(hop_count, 1), Rat(2, 100)))
        mixer_bonus == IF matches # <<>> THEN Rat(1, 10) ELSE Zero
        recency_bonus == IF recent_window THEN Rat(5, 100) ELSE Zero
    IN  RMin(One, RAdd(RAdd(RAdd(base, coverage), mixer_bonus), recency_bonus))

\* generate_briefing(analysis), `reads` being what the successive calls of
\* _now_provider() return: _hours_since makes the first call when there is
\* a last activity, generated_at takes the next one
GenerateBriefing(analysis, reads) ==
    LET hops == analysis.hops
        matches == analysis.mixers
        total_volume == TotalVolume(hops)
        counterparties == CollectCounterparties(analysis.address, hops)
        last_activity == LastActivity(hops)
        age_hours == IF last_activity # 0
                     THEN Some(HoursSince(reads[1], last_activity)) ELSE None
        recent_window == age_hours # None /\ RLe(age_hours[1], Rat(24, 1))
    IN  [address |-> analysis.address,
         network |-> analysis.network,
         generated_at |-> IF last_activity # 0 THEN reads[2] ELSE reads[1],
         summary |-> BuildSummary(analysis, Len(hops), total_volume, recent_window),
         confidence |-> EstimateConfidence(Len(hops), matches, recent_window),
         risk_level |-> analysis.risk_level,
         highlights |-> BuildHighlights(analysis, matches, counterparties,
                                        total_volume, age_hours),
         recommendations |-> BuildRecommendations(analysis, matches, recent_window,
                                                  total_volume, counterparties),
         alerts |-> BuildAlerts(analysis, matches, recent_window)]

\* the hop lists briefings are asked for: n hops, newest first, sent by the
\* analysed address (in lower case) to `parties` destinations in turn, the
\* first `paid` of them moving `amount` and the others nothing
BriefingShapes ==
    { [n |-> 0, parties |-> 1, paid |-> 0, amount |-> 0],
      [n |-> 2, parties |-> 2, paid |-> 2, amount |-> -5],
      [n |-> 3, parties |-> 1, paid |-> 3, amount |-> 3],
      [n |-> 14, parties |-> 14, paid |-> 0, amount |-> 1],
      [n |-> 15, parties |-> 15, paid |-> 9, amount |-> 1],
      [n |-> 20, parties |-> 20, paid |-> 15, amount |-> 1],
      [n |-> MaxBriefHops, parties |-> 1, paid |-> MaxBriefHops, amount |-> 1] }

\* the hops of a shape, the newest at `last` (0 when the explorer gave no
\* timestamps)
BriefingHops(shape, last) ==
    [i \in 1..shape.n |->
        [tx_hash |-> "b" \o ToString(i),
         from_address |-> "0xab",
         to_address |-> "dest" \o ToString(((i - 1) % shape.parties) + 1),
         amount |-> IF i <= shape.paid THEN shape.amount ELSE 0,
         timestamp |-> IF last = 0 THEN 0 ELSE last - 300 * (i - 1)]]

\* what two successive calls of the clock return, the newest hop being at
\* 172800: before it, a day after it to the second, the same with the clock
\* moving on between the calls, and later than a day after it
BriefingClocks ==
    { <<172500, 172500>>, <<259200, 259200>>, <<259200, 259500>>,
      <<259500, 259500>> }

\* the results generate_briefing is called with
BriefingResults ==
    { [address |-> "0xAB", network |-> "ethereum",
       risk_score |-> Rat(1, 2), risk_level |-> level,
       hops |-> BriefingHops(shape, last), mixers |-> matches,
       notes |-> <<>>, sources |-> <<"Etherscan">>] :
        level \in {"critical", "high", "moderate", "low", "unknown"},
        shape \in BriefingShapes,
        last \in {0, 172800},
        matches \in {<<>>, <<MixerMatch("Tornado", Rat(9, 10), [address |-> "dest1"])>>} }

\* an ArtificialAnalyst and the result it is about to be asked about
BriefingInit ==
    /\ RiskIdle
    /\ AnalyzerIdle
    /\ MonitoringIdle
    /\ ExplorersIdle
    /\ MixerIdle
    /\ \E r \in BriefingResults, reads \in BriefingClocks :
        briefIn = Some([result |-> r, reads |-> reads])
    /\ briefOut = None

\* generate_briefing(result)
GenerateBriefingCall ==
    /\ briefIn # None
    /\ briefOut = None
    /\ briefOut' = Some(GenerateBriefing(briefIn[1].result, briefIn[1].reads))
    /\ UNCHANGED <<briefIn, riskVars, analyzerVars, monitoringVars, explorerVars, mixerVars>>

BriefingNext == GenerateBriefingCall

SpecBriefing == BriefingInit /\ [][BriefingNext]_vars

(***************************************************************************)
(* Claims on the ArtificialAnalyst.                                        *)
(***************************************************************************)
\* the last activity of the result is no more than 24 hours before the
\* clock reading the age is computed with
WithinDay(analysis, now) ==
    /\ analysis.hops # <<>>
    /\ now - LastActivity(analysis.hops) <= 24 * 3600

C20_ConfidenceFormula ==
    briefOut # None =>
        LET r == briefIn[1].result
            hop_count == Len(r.hops)
            base == IF hop_count >= 3 THEN <<2, 5>> ELSE <<1, 4>>
            coverage == IF hop_count * 2 <= 45 THEN Rat(hop_count * 2, 100)
                        ELSE <<9, 20>>
            mixer == IF Len(r.mixers) > 0 THEN <<1, 10>> ELSE <<0, 1>>
            recent == IF WithinDay(r, briefIn[1].reads[1]) THEN <<1, 20>> ELSE <<0, 1>>
            sum == RAdd(RAdd(base, coverage), RAdd(mixer, recent))
            confidence == briefOut[1].confidence
        IN  /\ confidence = IF RLe(sum, <<1, 1>>) THEN sum ELSE <<1, 1>>
            /\ RLe(<<0, 1>>, confidence)
            /\ RLe(confidence, <<1, 1>>)

\* a briefing on more hops than the coverage counts, with a match and fresh
\* activity, has confidence 1
C20_Witness ==
    /\ briefOut # None
    /\ Len(briefIn[1].result.hops) * 2 > 45
    /\ briefIn[1].result.mixers # <<>>
    /\ WithinDay(briefIn[1].result, briefIn[1].reads[1])
    /\ briefOut[1].confidence = <<1, 1>>

(***************************************************************************)
(* Secrets (api_keys.py) and the explorer clients (explorers.py).          *)
(***************************************************************************)
\* the names secrets are looked up by
EnvVars ==
    {"BLOCKCYPHER_API_KEY", "ETHERSCAN_API_KEY", "POLYGONSCAN_API_KEY",
     "TRONGRID_API_KEY"}

\* API_SERVICE_KEYS: env_var and default_value of every service listed
API_SERVICE_KEYS ==
    [blockcypher |-> [env_var |-> "BLOCKCYPHER_API_KEY", default_value |-> None],
     blockchair |-> [env_var |-> "BLOCKCHAIR_API_KEY", default_value |-> None],
     chainz |-> [env_var |-> "CHAINZ_API_KEY", default_value |-> None],
     coingecko |-> [env_var |-> "COINGECKO_API_KEY", default_value |-> None],
     ofac_watchlist |-> [env_var |-> "OFAC_API_KEY", default_value |-> Some("N/A")],
     heuristic_mixer |-> [env_var |-> "HEURISTIC_MIXER_TOKEN",
                          default_value |-> Some("N/A")]]

\* what a mapping of names to values holds for `name`
Lookup(mapping, name) == IF name \in DOMAIN mapping THEN mapping[name] ELSE None

\* str.strip() on the values secrets take: " " is all blanks
Strip(value) == IF value = " " THEN "" ELSE value

\* APIServiceKey.resolve: the environment variable, else the local env
\* file, else the default
Resolve(entry, config) ==
    LET value == Lookup(config.environ, entry.env_var)
        file_value == Lookup(config.file, entry.env_var)
    IN  IF value # None /\ value[1] # ""
        THEN (IF Strip(value[1]) # "" THEN Some(Strip(value[1])) ELSE None)
        ELSE IF file_value # None /\ file_value[1] # ""
        THEN file_value
        ELSE entry.default_value

\* get_api_key(service_id)
GetApiKey(config, service_id) ==
    IF service_id \in DOMAIN API_SERVICE_KEYS
    THEN Resolve(API_SERVICE_KEYS[service_id], config)
    ELSE None

\* a constructor or a call that returns `value`, or raises `exception`
Returns(value) == [ok |-> TRUE, value |-> value]

Raises(exception) == [ok |-> FALSE, error |-> exception]

\* the exception classes of explorers.py and their base classes
IsInstance(exception, class) ==
    \/ exception = class
    \/ exception = "UnsupportedNetworkError" /\ class \in {"ExplorerAPIError", "RuntimeError"}
    \/ exception = "ExplorerAPIError" /\ class = "RuntimeError"

\* `not api_key`
Falsy(api_key) == api_key = None \/ api_key[1] = ""

ExplorerClient(cls, network, service_id, display_name, credential) ==
    [cls |-> cls, network |-> network, service_id |-> service_id,
     service_name |-> display_name, credential |-> credential]

\* BlockchainComExplorerClient(network, api_code=...)
BlockchainComExplorerClient(network, api_code) ==
    Returns(ExplorerClient("BlockchainComExplorerClient", network, "blockchain_com",
                           "Blockchain.com Explorer", api_code))

\* BlockCypherExplorerClient(network, token=...)
BlockCypherExplorerClient(network, token) ==
    IF network \notin {"bitcoin", "litecoin"}
    THEN Raises("UnsupportedNetworkError")
    ELSE Returns(ExplorerClient("BlockCypherExplorerClient", network, "blockcypher",
                                "BlockCypher API", token))

\* EtherscanExplorerClient(network, api_key=..., service_id=...)
EtherscanExplorerClient(network, api_key, service_id) ==
    IF Falsy(api_key) THEN Raises("ExplorerAPIError")
    ELSE IF network \notin {"ethereum", "polygon"}
    THEN Raises("UnsupportedNetworkError")
    ELSE Returns(ExplorerClient("EtherscanExplorerClient", network, service_id,
                                IF service_id = "polygonscan" THEN "Polygonscan API"
                                ELSE "Etherscan API", api_key))

\* TronGridExplorerClient(network, api_key=...)
TronGridExplorerClient(network, api_key) ==
    IF Falsy(api_key) THEN Raises("ExplorerAPIError")
    ELSE IF network # "tron" THEN Raises("UnsupportedNetworkError")
    ELSE Returns(ExplorerClient("TronGridExplorerClient", network, "trongrid",
                                "TronGrid API", api_key))

\* SUPPORTED_NETWORKS
SUPPORTED_NETWORKS == <<"bitcoin", "ethereum", "tron", "litecoin", "polygon">>

\* [constructor(...)] where a raising constructor ends the call
Single(constructed) ==
    IF constructed.ok THEN Returns(<<constructed.value>>) ELSE constructed

\* create_explorer_clients(network), `config` being what the environment
\* and the local env file hold
CreateExplorerClients(config, network) ==
    IF network = "bitcoin"
    THEN LET first == BlockchainComExplorerClient("bitcoin",
                          GetApiKey(config, "blockchain_com"))
             second == BlockCypherExplorerClient("bitcoin",
                          GetApiKey(config, "blockcypher"))
         IN  IF ~first.ok THEN first
             ELSE IF second.ok THEN Returns(<<first.value, second.value>>)
             ELSE IF IsInstance(second.error, "UnsupportedNetworkError")
             THEN Returns(<<first.value>>)
             ELSE second
    ELSE IF network = "ethereum"
    THEN Single(EtherscanExplorerClient("ethereum", GetApiKey(config, "etherscan"),
                                        "etherscan"))
    ELSE IF network = "tron"
    THEN Single(TronGridExplorerClient("tron", GetApiKey(config, "trongrid")))
    ELSE IF network = "litecoin"
    THEN Single(BlockCypherExplorerClient("litecoin", GetApiKey(config, "blockcypher")))
    ELSE IF network = "polygon"
    THEN Single(EtherscanExplorerClient("polygon", GetApiKey(config, "polygonscan"),
                                        "polygonscan"))
    ELSE Raises("UnsupportedNetworkError")

\* _coerce_timestamp and _parse_timestamp: the time the transaction gives,
\* in seconds (TronGrid gives milliseconds), else the current time
Timestamp(client, raw, now) ==
    IF raw = None THEN now
    ELSE IF client.cls = "TronGridExplorerClient" THEN raw[1] \div 1000
    ELSE raw[1]

\* the hops one transaction of the response gives: one per pair of input
\* and output (blockchain.com, BlockCypher) or per transfer contract
\* (TronGrid), `legs` in all; Etherscan gives one hop per transaction
HopsOfTransaction(client, tx, now) ==
    [j \in 1..(IF client.cls = "EtherscanExplorerClient" THEN 1 ELSE tx.legs) |->
        [tx_hash |-> tx.hash, from_address |-> "in" \o ToString(j),
         to_address |-> "out", amount |-> 1,
         timestamp |-> Timestamp(client, tx.time, now)]]

\* the hops of all transactions of the response, in its order: upTo[i]
\* hops come from the first i transactions
HopsOfTransactions(client, txs, now) ==
    LET n == Len(txs)
        count(i) == Len(HopsOfTransaction(client, txs[i], now))
        most == IF n = 0 THEN 0 ELSE SetMax({count(i) : i \in 1..n})
        upTo == SubSeq([i \in 1..n |->
                    Cardinality({p \in (1..i) \X (1..most) : p[2] <= count(p[1])})],
                    1, n)
        before(i) == IF i = 1 THEN 0 ELSE upTo[i - 1]
        owner(p) == CHOOSE i \in 1..n : before(i) < p /\ p <= upTo[i]
    IN  [p \in 1..(IF n = 0 THEN 0 ELSE upTo[n]) |->
            HopsOfTransaction(client, txs[owner(p)], now)[p - before(owner(p))]]

\* hops.sort(key=timestamp, reverse=True): every hop goes behind the newer
\* hops and behind the hops of its own time that came before it (the sort
\* is stable)
SortNewestFirst(hops) ==
    LET n == Len(hops)
        place == SubSeq([i \in 1..n |->
                    1 + Cardinality({j \in 1..n :
                            \/ hops[j].timestamp > hops[i].timestamp
                            \/ hops[j].timestamp = hops[i].timestamp /\ j < i})],
                    1, n)
    IN  [k \in 1..n |-> hops[CHOOSE i \in 1..n : place[i] = k]]

\* hops[:200]
CapHops(hops) == IF Len(hops) > 200 THEN SubSeq(hops, 1, 200) ELSE hops

\* fetch_transaction_hops(address) of `client` when the provider answers
\* with `response`
FetchTransactionHops(client, response, now) ==
    LET hops == HopsOfTransactions(client, response.txs, now)
    IN  IF client.cls = "BlockchainComExplorerClient" /\ client.network # "bitcoin"
        THEN Raises("UnsupportedNetworkError")
        ELSE IF response.transport = "error" THEN Raises("ExplorerAPIError")
        ELSE IF client.cls = "EtherscanExplorerClient"
        THEN (IF response.status # "1"
              THEN (IF response.message = "No transactions found"
                    THEN Returns(<<>>) ELSE Raises("ExplorerAPIError"))
              ELSE Returns(CapHops(hops)))
        ELSE Returns(CapHops(SortNewestFirst(hops)))

\* the longest list of transactions of the small responses
MaxResponseTxs == 2

\* the number of transactions, or of hops of one transaction, of the large
\* responses
BigResponse == 201

\* the transactions the small responses are made of: a time in seconds
\* times 1000, or none
ResponseTxs ==
    { [hash |-> "a", time |-> Some(100000), legs |-> 1],
      [hash |-> "b", time |-> Some(200000), legs |-> 2],
      [hash |-> "c", time |-> None, legs |-> 1] }

\* what a provider answers: a transport failure, an Etherscan status other
\* than "1", or transactions in any order
Responses ==
    { [transport |-> "error", status |-> "1", message |-> "OK", txs |-> <<>>],
      [transport |-> "ok", status |-> "0", message |-> "No transactions found",
       txs |-> <<>>],
      [transport |-> "ok", status |-> "0", message |-> "NOTOK", txs |-> <<>>] }
    \cup { [transport |-> "ok", status |-> "1", message |-> "OK", txs |-> txs] :
             txs \in SeqsUpTo(ResponseTxs, MaxResponseTxs)
                     \cup { [i \in 1..BigResponse |->
                               [hash |-> "m" \o ToString(i),
                                time |-> Some(1000 * i), legs |-> 1]],
                            <<[hash |-> "big", time |-> Some(100000),
                               legs |-> BigResponse],
                              [hash |-> "new", time |-> Some(200000), legs |-> 1]>> } }

\* what _current_utc_timestamp() reads during a fetch: a time before, and
\* a time after, the times of the transactions
FetchClocks == {150, 300000}

\* the credentials a client is constructed with
Credentials == {None, Some(""), Some("key")}

\* the constructor calls made
ConstructorCalls ==
    [cls : {"BlockchainComExplorerClient", "BlockCypherExplorerClient",
            "TronGridExplorerClient"},
     network : Network, credential : Credentials, service_id : {""}]
    \cup [cls : {"EtherscanExplorerClient"}, network : Network,
          credential : Credentials, service_id : {"etherscan", "polygonscan"}]

\* the constructor of c.cls called with the arguments of c
ConstructClient(c) ==
    IF c.cls = "BlockchainComExplorerClient"
    THEN BlockchainComExplorerClient(c.network, c.credential)
    ELSE IF c.cls = "BlockCypherExplorerClient"
    THEN BlockCypherExplorerClient(c.network, c.credential)
    ELSE IF c.cls = "EtherscanExplorerClient"
    THEN EtherscanExplorerClient(c.network, c.credential, c.service_id)
    ELSE TronGridExplorerClient(c.network, c.credential)

\* what the environment and the local env file can hold: every name set
\* to "key" or to blanks or not at all in the environment, and the file
\* empty or with every name set
SecretConfigs ==
    [environ : [EnvVars -> {None, Some("key")}]
               \cup {[v \in EnvVars |-> Some(" ")]},
     file : {<<>>, [v \in EnvVars |-> Some("filekey")]}]

\* a client is constructed
ConstructClientCall ==
    /\ exOut = None
    /\ \E c \in ConstructorCalls :
        LET constructed == ConstructClient(c)
        IN  /\ exOut' = Some([op |-> "construct", args |-> c, outcome |-> constructed])
            /\ exClient' = IF constructed.ok THEN Some(constructed.value) ELSE None
    /\ UNCHANGED <<secrets, riskVars, analyzerVars, monitoringVars, briefingVars, mixerVars>>

\* fetch_transaction_hops is called on the client constructed
FetchTransactionHopsCall ==
    /\ exClient # None
    /\ exOut # None
    /\ exOut[1].op = "construct"
    /\ \E response \in Responses, now \in FetchClocks :
        exOut' = Some([op |-> "fetch_transaction_hops",
                       args |-> [client |-> exClient[1], response |-> response,
                                 now |-> now],
                       outcome |-> FetchTransactionHops(exClient[1], response, now)])
    /\ UNCHANGED <<secrets, exClient, riskVars, analyzerVars, monitoringVars, briefingVars, mixerVars>>

\* create_explorer_clients(network) is called in some environment
CreateExplorerClientsCall ==
    /\ exOut = None
    /\ \E config \in SecretConfigs, network \in Network :
        /\ secrets' = config
        /\ exOut' = Some([op |-> "create_explorer_clients", args |-> network,
                          outcome |-> CreateExplorerClients(config, network)])
    /\ UNCHANGED <<exClient, riskVars, analyzerVars, monitoringVars, briefingVars, mixerVars>>

\* nothing of explorers.py was called yet
ExplorersInit ==
    /\ RiskIdle
    /\ AnalyzerIdle
    /\ MonitoringIdle
    /\ BriefingIdle
    /\ ExplorersIdle
    /\ MixerIdle

ExplorersNext ==
    \/ ConstructClientCall
    \/ FetchTransactionHopsCall
    \/ CreateExplorerClientsCall

SpecExplorers == ExplorersInit /\ [][ExplorersNext]_vars

(***************************************************************************)
(* Claims about the explorer clients.                                      *)
(***************************************************************************)
\* the hops are newest first
NewestFirst(hops) ==
    \A i \in 1..(Len(hops) - 1) : hops[i].timestamp >= hops[i + 1].timestamp

\* a fetch_transaction_hops call has returned
Fetched ==
    /\ exOut # None
    /\ exOut[1].op = "fetch_transaction_hops"
    /\ exOut[1].outcome.ok

\* C21 (as claimed): every explorer client's fetch_transaction_hops
\* returns at most 200 hops, newest first, whatever order the provider
\* lists the transactions in.  The Etherscan client returns the hops in
\* the order of the response.
C21_FetchNewestFirstCapped ==
    Fetched =>
        /\ Len(exOut[1].outcome.value) <= 200
        /\ NewestFirst(exOut[1].outcome.value)

\* the networks the endpoints of a client class cover (_BASE_URLS,
\* _BASE_ENDPOINTS, _ENDPOINTS)
Covers(cls) ==
    IF cls = "BlockchainComExplorerClient" THEN {"bitcoin"}
    ELSE IF cls = "BlockCypherExplorerClient" THEN {"bitcoin", "litecoin"}
    ELSE IF cls = "EtherscanExplorerClient" THEN {"ethereum", "polygon"}
    ELSE {"tron"}

\* the client classes whose constructor tests the credential
RequiresCredential(cls) ==
    cls \in {"EtherscanExplorerClient", "TronGridExplorerClient"}

\* a constructor was called
Constructed == exOut # None /\ exOut[1].op = "construct"

\* C22 (as claimed): constructing a client for a network it does not
\* cover, or a client that needs a credential without one, fails at
\* construction with the unsupported-network error.  A missing credential
\* raises the general explorer error, and the blockchain.com client is
\* constructed for any network.
C22_ConstructionFailsUnsupported ==
    (/\ Constructed
     /\ \/ exOut[1].args.network \notin Covers(exOut[1].args.cls)
        \/ RequiresCredential(exOut[1].args.cls) /\ Falsy(exOut[1].args.credential))
    => /\ ~exOut[1].outcome.ok
       /\ exOut[1].outcome.error = "UnsupportedNetworkError"

\* the name the error messages of the constructors give for the key of the
\* provider of a network; the providers of bitcoin and litecoin need none
KeyNameOf(network) ==
    IF network = "ethereum" THEN Some("ETHERSCAN_API_KEY")
    ELSE IF network = "polygon" THEN Some("POLYGONSCAN_API_KEY")
    ELSE IF network = "tron" THEN Some("TRONGRID_API_KEY")
    ELSE None

\* create_explorer_clients was called
Created == exOut # None /\ exOut[1].op = "create_explorer_clients"

\* the key of the provider of the network of the call is set in the
\* environment
KeySupplied ==
    LET name == KeyNameOf(exOut[1].args)
    IN  name # None => Lookup(secrets.environ, name[1]) = Some("key")

\* C30 (as claimed): with the Etherscan, Polygonscan or TronGrid key
\* supplied, create_explorer_clients returns at least one client for
\* ethereum, polygon and tron, as it does for bitcoin and litecoin.
\* get_api_key knows none of the three services, so the call raises.
C30_SuppliedKeyGivesClient ==
    (Created /\ KeySupplied) =>
        /\ exOut[1].outcome.ok
        /\ Len(exOut[1].outcome.value) >= 1

(***************************************************************************)
(* HeuristicMixerClient.detect_mixers on its own                           *)
(* (archeblow_service.py:291-331).                                         *)
(***************************************************************************)
\* the watchlists a source is constructed with, as the caller spells the
\* addresses
Watchlists ==
    { [a \in {} |-> ""],
      [a \in {"0xAB"} |-> "Tornado"],
      [a \in {"0xab", "t1mix"} |-> IF a = "t1mix" THEN "Sinbad" ELSE "Tornado"],
      [a \in {"bc1q"} |-> "Wasabi"] }

\* the base confidences a source is constructed with: the default and 1
BaseConfidences == {<<7, 10>>, One}

\* a source was constructed and detect_mixers is about to be called
MixerInit ==
    /\ mixIn \in {Some(x) : x \in [watchlist : Watchlists,
                                   base_confidence : BaseConfidences,
                                   address : Addresses,
                                   hops : SeqsUpTo(Hops, MaxHops)]}
    /\ mixOut = None
    /\ RiskIdle
    /\ AnalyzerIdle
    /\ MonitoringIdle
    /\ BriefingIdle
    /\ ExplorersIdle

\* detect_mixers(address, hops) on the source constructed
DetectMixersCall ==
    /\ mixOut = None
    /\ LET client == HeuristicMixerClient(mixIn[1].watchlist, mixIn[1].base_confidence)
       IN  mixOut' = Some([matches |-> DetectMixers(client, mixIn[1].address,
                                                    mixIn[1].hops),
                           watchlist |-> client.watchlist])
    /\ UNCHANGED <<mixIn, riskVars, analyzerVars, monitoringVars, briefingVars, explorerVars>>

MixerNext == DetectMixersCall

SpecMixer == MixerInit /\ [][MixerNext]_vars

\* the address is in the watchlist, letter case aside
InWatchlist(watchlist, address) ==
    \E a \in DOMAIN watchlist : Lower(a) = Lower(address)

\* the name the watchlist gives the address
NameIn(watchlist, address) ==
    watchlist[CHOOSE a \in DOMAIN watchlist : Lower(a) = Lower(address)]

\* C23: detect_mixers returns one match at the base confidence iff the
\* analyzed address is in the watchlist, then one match at 0.9 x base for
\* every hop whose destination is in the watchlist, in hop order, and
\* nothing else; addresses compare without regard to letter case, senders
\* are not looked at, and the watchlist of the source is as constructed.
C23_WatchlistMatches ==
    mixOut # None =>
        LET watchlist == mixIn[1].watchlist
            base == mixIn[1].base_confidence
            address == mixIn[1].address
            hops == mixIn[1].hops
            found == mixOut[1].matches
            own == IF InWatchlist(watchlist, address) THEN 1 ELSE 0
            hits == {i \in 1..Len(hops) : InWatchlist(watchlist, hops[i].to_address)}
            nth(k) == CHOOSE i \in hits : Cardinality({j \in hits : j <= i}) = k
        IN  /\ Len(found) = own + Cardinality(hits)
            /\ own = 1 =>
                found[1] = MixerMatch(NameIn(watchlist, address), base,
                                      [match |-> address])
            /\ \A k \in 1..Cardinality(hits) :
                found[own + k] =
                    MixerMatch(NameIn(watchlist, hops[nth(k)].to_address),
                               RMul(base, <<9, 10>>),
                               [tx_hash |-> hops[nth(k)].tx_hash,
                                match |-> hops[nth(k)].to_address])
            /\ mixOut[1].watchlist = LowerKeys(watchlist)

\* the analyzed address is spelled in another case than the watchlist has
\* it, one hop pays into the watchlist and another comes from it, and two
\* matches are found
C23_Witness ==
    /\ mixOut # None
    /\ mixIn[1].watchlist = [a \in {"0xAB"} |-> "Tornado"]
    /\ mixIn[1].address = "0xab"
    /\ mixIn[1].hops = <<TransactionHop("tx3", "0xab", "t1mix", 2400),
                         TransactionHop("tx2", "bc1q", "0xAB", 900)>>
    /\ Len(mixOut[1].matches) = 2
    /\ mixOut[1].matches[2].confidence = <<63, 100>>

\* C25 (as claimed): a briefing is a function of the result and of one
\* clock reading, its generated_at: the age and the recent window are
\* computed with the reading generated_at holds, also when the clock moves
\* on between the reads.  generate_briefing reads the clock once for the
\* age and once more for generated_at.
C25_OneClockReading ==
    briefOut # None =>
        briefOut[1] = GenerateBriefing(briefIn[1].result,
                          <<briefOut[1].generated_at, briefOut[1].generated_at>>)

====
